---- MODULE Spec2Model ----
(***************************************************************************)
(* A model of taodev/stcp: the framed AEAD record layer (secure.go), the   *)
(* one-packet handshake (handshake_v1.go, the server context with its      *)
(* replay cache) and the connection object (conn.go and its handshake      *)
(* latch).                                                                 *)
(*                                                                         *)
(* Cryptography is ideal: an AEAD opens exactly what was sealed under the  *)
(* same key and nonce, HKDF and HMAC are injective term constructors and   *)
(* X25519 is a commutative term constructor.  A uint64 is its 8 bytes in   *)
(* little-endian order, so that 64-bit wrap-around is exact.               *)
(***************************************************************************)
EXTENDS Integers, Sequences, FiniteSets, TLC

(***************************************************************************)
(* Bounds of the model.                                                    *)
(***************************************************************************)
\* ClientConfig.Tolerance and ServerContext.Tolerance, in seconds (120 by
\* default), scaled down
Tolerance == 2
\* the clock runs from 0 to MaxTime
MaxTime == 3
\* gcmPacketSize is 4096 in secure.go:17; it is scaled down so that a Write
\* splits into several records within the bounds below.
gcmPacketSize == 2
\* the longest buffer handed to one SecureWriter.Write
MaxWriteLen == 3
\* the plaintext bytes written over the life of one writer
MaxTotal == 4
\* the largest destination buffer handed to SecureReader.Read
MaxDst == 2
\* a carrier with short writes/reads moves at most this many bytes per call
ShortIO == 5
\* Conn.Write calls per endpoint
MaxConnWrites == 1

(***************************************************************************)
(* Program constants.                                                      *)
(***************************************************************************)
gcmHeaderSize == 2
gcmTagSize == 16
gcmPacketCache == gcmHeaderSize + gcmPacketSize + gcmTagSize
gcmNonceSize == 12
idSizeV1 == 8

Nil == "nil"
ErrClosedPipe == "io: read/write on closed pipe"
EOF == "EOF"
ErrUnexpectedEOF == "unexpected EOF"
ErrTooLong == "stcp: message too long"
ErrTooShort == "stcp: message too short"
ErrCipher == "cipher: message authentication failed"
Blocked == "blocked"

Min(a, b) == IF a < b THEN a ELSE b

Drop(s, n) == SubSeq(s, n + 1, Len(s))
Take(s, n) == SubSeq(s, 1, n)

(***************************************************************************)
(* 64-bit counters: atomic.AddUint64(&x, 1) on the little-endian bytes.     *)
(***************************************************************************)
RECURSIVE Inc64From(_, _)
Inc64From(b, i) ==
    IF i > Len(b) THEN b
    ELSE IF b[i] = 255 THEN Inc64From([b EXCEPT ![i] = 0], i + 1)
    ELSE [b EXCEPT ![i] = b[i] + 1]

\* a counter that stays at 2^64 - 1
AddUint64One_Saturating(b) == IF \A i \in 1..Len(b) : b[i] = 255 THEN b ELSE Inc64From(b, 1)

AddUint64One(b) == Inc64From(b, 1)

\* binary.LittleEndian.PutUint16 / Uint16 on wire bytes
PutUint16(v) == << [t |-> "h", v |-> v % 256], [t |-> "h", v |-> (v \div 256) % 256] >>
ByteVal(tok) == IF tok.t = "h" THEN tok.v ELSE 255
Uint16(h) == ByteVal(h[1]) + 256 * ByteVal(h[2])

(***************************************************************************)
(* The AEAD (cipher.AEAD): Seal yields the ciphertext bytes and a 16-byte   *)
(* tag that authenticates (key, nonce, plaintext); Open succeeds only on    *)
(* bytes sealed under the same key and nonce.  The tag's first byte stands  *)
(* for what it authenticates.                                               *)
(***************************************************************************)
Seal(key, nonce, pt) ==
    [i \in 1..(Len(pt) + gcmTagSize) |->
        IF i <= Len(pt) THEN [t |-> "c", i |-> i, p |-> pt[i]]
        ELSE IF i = Len(pt) + 1
        THEN [t |-> "g", i |-> 1, p |-> [k |-> key, n |-> nonce, pt |-> pt]]
        ELSE [t |-> "g", i |-> i - Len(pt), p |-> 0]]

Open(key, nonce, ct) ==
    LET m == Len(ct) - gcmTagSize
        okc == \A i \in 1..m : ct[i].t = "c" /\ ct[i].i = i
        pt == [i \in 1..m |-> ct[i].p]
        okg == \A j \in 1..gcmTagSize :
                  /\ ct[m + j].t = "g"
                  /\ ct[m + j].i = j
                  /\ j = 1 => ct[m + j].p = [k |-> key, n |-> nonce, pt |-> pt]
    IN IF m >= 0 /\ okc /\ okg
       THEN [pt |-> pt, err |-> Nil]
       ELSE [pt |-> <<>>, err |-> ErrCipher]

(***************************************************************************)
(* The carrier under the record layer.  A writing carrier is               *)
(* [k, budget, cause]: it takes at most k bytes per call (0: all of them)  *)
(* and fails with cause once budget bytes went through (-1: never).        *)
(***************************************************************************)
CarrierWrite(c, p) ==
    LET want == IF c.k = 0 THEN Len(p) ELSE Min(Len(p), c.k)
    IN IF c.budget < 0 THEN [n |-> want, err |-> Nil, c |-> c]
       ELSE IF want <= c.budget /\ c.budget > 0
            THEN [n |-> want, err |-> Nil, c |-> [c EXCEPT !.budget = c.budget - want]]
            ELSE [n |-> c.budget, err |-> c.cause, c |-> [c EXCEPT !.budget = 0]]

\* the loop of io.ReadFull (io.ReadAtLeast) over a carrier that returns at
\* most k bytes per Read (0: all that is asked for and there): Read is
\* called until m bytes are in; the carrier's EOF becomes ErrUnexpectedEOF
\* once some bytes are in
RECURSIVE ReadLoop(_, _, _, _)
ReadLoop(data, m, k, got) ==
    IF Len(got) >= m THEN [got |-> got, err |-> Nil, rest |-> data]
    ELSE IF Len(data) = 0
         THEN [got |-> got, err |-> IF Len(got) = 0 THEN EOF ELSE ErrUnexpectedEOF,
               rest |-> data]
    ELSE LET n == Min(Min(m - Len(got), Len(data)), IF k = 0 THEN m ELSE k)
         IN ReadLoop(Drop(data, n), m, k, got \o Take(data, n))

\* io.ReadFull over a carrier holding data, which returns at most k bytes
\* per Read: [got, err, rest].  A carrier that is still open blocks when it
\* runs dry.
ReadFull(data, ended, m, k) ==
    IF Len(data) < m /\ ~ended THEN [got |-> <<>>, err |-> Blocked, rest |-> data]
    ELSE ReadLoop(data, m, k, <<>>)

(***************************************************************************)
(* SecureWriter                                                            *)
(***************************************************************************)
NewSecureWriter(key, nonceSize, nonce) ==
    [inner |-> TRUE, gcm |-> key, nonceSize |-> nonceSize,
     nonceBase |-> Drop(nonce, idSizeV1),
     nonceId |-> Take(nonce, idSizeV1),
     buf |-> TRUE, err |-> Nil]

\* a nextNonce that uses the counter as it was before the increment
nextNonce_PostIncrement(x) ==
    [id |-> AddUint64One(x.nonceId),
     nonce |-> x.nonceId \o Take(x.nonceBase, x.nonceSize - idSizeV1)]

\* nextNonce of SecureWriter and of SecureReader: [id, nonce]
nextNonce(x) ==
    LET id == AddUint64One(x.nonceId)
    IN [id |-> id, nonce |-> id \o Take(x.nonceBase, x.nonceSize - idSizeV1)]

\* a flush loop that gives up on a carrier that took nothing
flushStep_GivesUp(p, r) ==
    IF r.err # Nil THEN [p |-> p, exit |-> TRUE, err |-> r.err]
    ELSE IF r.n = 0 THEN [p |-> p, exit |-> TRUE, err |-> Nil]
    ELSE [p |-> Drop(p, r.n), exit |-> Len(p) = r.n, err |-> Nil]

\* one turn of the flush loop of SecureWriter.write, r = [n, err] being
\* what w.inner.Write(p) returned: [p, exit, err]
flushStep(p, r) ==
    IF r.err # Nil THEN [p |-> p, exit |-> TRUE, err |-> r.err]
    ELSE [p |-> Drop(p, r.n), exit |-> Len(Drop(p, r.n)) = 0, err |-> Nil]

\* the flush loop of SecureWriter.write: [out, err, c]
RECURSIVE flushLoop(_, _, _)
flushLoop(c, p, out) ==
    IF Len(p) = 0 THEN [out |-> out, err |-> Nil, c |-> c]
    ELSE LET r == CarrierWrite(c, p)
         IN IF r.err # Nil
            THEN [out |-> out \o Take(p, r.n), err |-> r.err, c |-> r.c]
            ELSE flushLoop(r.c, Drop(p, r.n), out \o Take(p, r.n))

\* a write that hands the record to the carrier once and does not look at
\* how much of it the carrier took
writeRecord_OneWrite(w, c, b) ==
    LET bb == IF Len(b) > gcmPacketSize THEN Take(b, gcmPacketSize) ELSE b
        rawLen == gcmHeaderSize + Len(bb) + gcmTagSize
        nn == nextNonce(w)
        p == PutUint16(rawLen - gcmHeaderSize) \o Seal(w.gcm, nn.nonce, bb)
        f == CarrierWrite(c, p)
    IN [w |-> [w EXCEPT !.nonceId = nn.id], c |-> f.c, out |-> Take(p, f.n),
        n |-> IF f.err = Nil THEN Len(bb) ELSE 0, err |-> f.err,
        nonce |-> nn.nonce]

\* a write that seals whatever it is handed as one record
writeRecord_NoSplit(w, c, b) ==
    LET rawLen == gcmHeaderSize + Len(b) + gcmTagSize
        nn == nextNonce(w)
        p == PutUint16(rawLen - gcmHeaderSize) \o Seal(w.gcm, nn.nonce, b)
        f == flushLoop(c, p, <<>>)
    IN [w |-> [w EXCEPT !.nonceId = nn.id], c |-> f.c, out |-> f.out,
        n |-> IF f.err = Nil THEN Len(b) ELSE 0, err |-> f.err,
        nonce |-> nn.nonce]

\* SecureWriter.write: one record
writeRecord(w, c, b) ==
    LET bb == IF Len(b) > gcmPacketSize THEN Take(b, gcmPacketSize) ELSE b
        rawLen == gcmHeaderSize + Len(bb) + gcmTagSize
        nn == nextNonce(w)
        p == PutUint16(rawLen - gcmHeaderSize) \o Seal(w.gcm, nn.nonce, bb)
        f == flushLoop(c, p, <<>>)
    IN [w |-> [w EXCEPT !.nonceId = nn.id], c |-> f.c, out |-> f.out,
        n |-> IF f.err = Nil THEN Len(bb) ELSE 0, err |-> f.err,
        nonce |-> nn.nonce]

RECURSIVE writeChunks(_, _, _, _, _, _)
writeChunks(w, c, b, n, out, nonces) ==
    IF Len(b) = 0
    THEN [w |-> w, c |-> c, out |-> out, n |-> n, err |-> Nil, nonces |-> nonces]
    ELSE LET r == writeRecord(w, c, b)
         IN IF r.err # Nil
            THEN [w |-> r.w, c |-> r.c, out |-> out \o r.out, n |-> n, err |-> r.err,
                  nonces |-> Append(nonces, r.nonce)]
            ELSE writeChunks(r.w, r.c, Drop(b, r.n), n + r.n, out \o r.out,
                             Append(nonces, r.nonce))

\* a Write that counts the plaintext of the record the carrier failed on
SecureWriterWrite_CountsFailed(w, c, b) ==
    IF ~w.inner
    THEN [w |-> w, c |-> c, out |-> <<>>, n |-> 0, err |-> ErrClosedPipe, nonces |-> <<>>]
    ELSE IF w.err # Nil
    THEN [w |-> w, c |-> c, out |-> <<>>, n |-> 0, err |-> w.err, nonces |-> <<>>]
    ELSE [writeChunks(w, c, b, 0, <<>>, <<>>) EXCEPT
             !.n = IF @ < Len(b) THEN Min(Len(b), @ + gcmPacketSize) ELSE @]

\* a Write that seals a record for an empty buffer too
SecureWriterWrite_SealsEmpty(w, c, b) ==
    IF ~w.inner
    THEN [w |-> w, c |-> c, out |-> <<>>, n |-> 0, err |-> ErrClosedPipe, nonces |-> <<>>]
    ELSE IF w.err # Nil
    THEN [w |-> w, c |-> c, out |-> <<>>, n |-> 0, err |-> w.err, nonces |-> <<>>]
    ELSE IF Len(b) = 0
    THEN [w |-> writeRecord(w, c, b).w, c |-> writeRecord(w, c, b).c,
          out |-> writeRecord(w, c, b).out, n |-> 0, err |-> writeRecord(w, c, b).err,
          nonces |-> << writeRecord(w, c, b).nonce >>]
    ELSE writeChunks(w, c, b, 0, <<>>, <<>>)

\* SecureWriter.Write: [w, c, out, n, err, nonces]
SecureWriterWrite(w, c, b) ==
    IF ~w.inner
    THEN [w |-> w, c |-> c, out |-> <<>>, n |-> 0, err |-> ErrClosedPipe, nonces |-> <<>>]
    ELSE IF w.err # Nil
    THEN [w |-> w, c |-> c, out |-> <<>>, n |-> 0, err |-> w.err, nonces |-> <<>>]
    ELSE writeChunks(w, c, b, 0, <<>>, <<>>)

\* Close that frees the buffer and leaves the field holding it
SecureWriterClose_KeepsBuf(w) ==
    [w EXCEPT !.inner = FALSE, !.gcm = 0, !.nonceId = [i \in 1..idSizeV1 |-> 0],
              !.err = IF w.err = Nil THEN ErrClosedPipe ELSE w.err]

SecureWriterClose(w) ==
    [w EXCEPT !.inner = FALSE, !.gcm = 0, !.nonceId = [i \in 1..idSizeV1 |-> 0],
              !.buf = FALSE,
              !.err = IF w.err = Nil THEN ErrClosedPipe ELSE w.err]

(***************************************************************************)
(* SecureReader                                                            *)
(***************************************************************************)
NewSecureReader(key, nonceSize, nonce) ==
    [inner |-> TRUE, gcm |-> key, nonceSize |-> nonceSize,
     nonceBase |-> Drop(nonce, idSizeV1),
     nonceId |-> Take(nonce, idSizeV1),
     buf |-> TRUE, rbuf |-> <<>>, readn |-> 0, err |-> Nil]

\* a reader that lets a record of just a tag through (< for <=)
readRecord_TagOnly(r, data, ended, k) ==
    LET h == ReadFull(data, ended, gcmHeaderSize, k)
        rawLen == Uint16(h.got)
        body == ReadFull(h.rest, ended, rawLen, k)
        nn == nextNonce(r)
        o == Open(r.gcm, nn.nonce, body.got)
    IN IF h.err # Nil THEN [r |-> r, rest |-> h.rest, err |-> h.err]
       ELSE IF rawLen = 0 THEN [r |-> r, rest |-> h.rest, err |-> EOF]
       ELSE IF rawLen > gcmPacketCache - gcmHeaderSize
            THEN [r |-> r, rest |-> h.rest, err |-> ErrTooLong]
       ELSE IF rawLen < gcmTagSize THEN [r |-> r, rest |-> h.rest, err |-> ErrTooShort]
       ELSE IF body.err # Nil THEN [r |-> r, rest |-> body.rest, err |-> body.err]
       ELSE IF o.err # Nil
            THEN [r |-> [r EXCEPT !.nonceId = nn.id], rest |-> body.rest, err |-> o.err]
       ELSE [r |-> [r EXCEPT !.nonceId = nn.id, !.rbuf = o.pt, !.readn = Len(o.pt)],
             rest |-> body.rest, err |-> Nil]

\* a reader that moves to the next nonce only when the record opened
readRecord_AdvanceOnSuccess(r, data, ended, k) ==
    LET h == ReadFull(data, ended, gcmHeaderSize, k)
        rawLen == Uint16(h.got)
        body == ReadFull(h.rest, ended, rawLen, k)
        nn == nextNonce(r)
        o == Open(r.gcm, nn.nonce, body.got)
    IN IF h.err # Nil THEN [r |-> r, rest |-> h.rest, err |-> h.err]
       ELSE IF rawLen = 0 THEN [r |-> r, rest |-> h.rest, err |-> EOF]
       ELSE IF rawLen > gcmPacketCache - gcmHeaderSize
            THEN [r |-> r, rest |-> h.rest, err |-> ErrTooLong]
       ELSE IF rawLen <= gcmTagSize THEN [r |-> r, rest |-> h.rest, err |-> ErrTooShort]
       ELSE IF body.err # Nil THEN [r |-> r, rest |-> body.rest, err |-> body.err]
       ELSE IF o.err # Nil THEN [r |-> r, rest |-> body.rest, err |-> o.err]
       ELSE [r |-> [r EXCEPT !.nonceId = nn.id, !.rbuf = o.pt, !.readn = Len(o.pt)],
             rest |-> body.rest, err |-> Nil]

\* SecureReader.read: one record from the carrier: [r, rest, err]
readRecord(r, data, ended, k) ==
    LET h == ReadFull(data, ended, gcmHeaderSize, k)
        rawLen == Uint16(h.got)
        body == ReadFull(h.rest, ended, rawLen, k)
        nn == nextNonce(r)
        o == Open(r.gcm, nn.nonce, body.got)
    IN IF h.err # Nil THEN [r |-> r, rest |-> h.rest, err |-> h.err]
       ELSE IF rawLen = 0 THEN [r |-> r, rest |-> h.rest, err |-> EOF]
       ELSE IF rawLen > gcmPacketCache - gcmHeaderSize
            THEN [r |-> r, rest |-> h.rest, err |-> ErrTooLong]
       ELSE IF rawLen <= gcmTagSize THEN [r |-> r, rest |-> h.rest, err |-> ErrTooShort]
       ELSE IF body.err # Nil THEN [r |-> r, rest |-> body.rest, err |-> body.err]
       ELSE IF o.err # Nil
            THEN [r |-> [r EXCEPT !.nonceId = nn.id], rest |-> body.rest, err |-> o.err]
       ELSE [r |-> [r EXCEPT !.nonceId = nn.id, !.rbuf = o.pt, !.readn = Len(o.pt)],
             rest |-> body.rest, err |-> Nil]

\* a copy-out that forgets to move the leftover to the front of rbuf
copyOut_NoShift(f, m) ==
    LET n == Min(m, f.r.readn)
    IN IF f.err # Nil THEN [r |-> f.r, rest |-> f.rest, got |-> <<>>, err |-> f.err]
       ELSE [r |-> [f.r EXCEPT !.readn = f.r.readn - n],
             rest |-> f.rest, got |-> Take(f.r.rbuf, n), err |-> Nil]

\* the end of SecureReader.Read, f being what r.read() left: copy up to m
\* bytes out of rbuf and move the leftover to its front
copyOut(f, m) ==
    LET n == Min(m, f.r.readn)
    IN IF f.err # Nil THEN [r |-> f.r, rest |-> f.rest, got |-> <<>>, err |-> f.err]
       ELSE [r |-> [f.r EXCEPT !.readn = f.r.readn - n,
                              !.rbuf = Drop(f.r.rbuf, n)],
             rest |-> f.rest, got |-> Take(f.r.rbuf, n), err |-> Nil]

\* a Read that goes for the next record whenever the leftover does not fill
\* the buffer
SecureReaderRead_Refill(r, data, ended, m, k) ==
    IF ~r.inner THEN [r |-> r, rest |-> data, got |-> <<>>, err |-> ErrClosedPipe]
    ELSE IF r.err # Nil THEN [r |-> r, rest |-> data, got |-> <<>>, err |-> r.err]
    ELSE copyOut(IF r.readn < m THEN readRecord(r, data, ended, k)
                 ELSE [r |-> r, rest |-> data, err |-> Nil], m)

\* SecureReader.Read into a buffer of m bytes, over a carrier that returns
\* at most k bytes per Read: [r, rest, got, err]
SecureReaderRead(r, data, ended, m, k) ==
    IF ~r.inner THEN [r |-> r, rest |-> data, got |-> <<>>, err |-> ErrClosedPipe]
    ELSE IF r.err # Nil THEN [r |-> r, rest |-> data, got |-> <<>>, err |-> r.err]
    ELSE copyOut(IF r.readn <= 0 THEN readRecord(r, data, ended, k)
                 ELSE [r |-> r, rest |-> data, err |-> Nil], m)

SecureReaderClose(r) ==
    [r EXCEPT !.inner = FALSE, !.gcm = 0, !.nonceId = [i \in 1..idSizeV1 |-> 0],
              !.buf = FALSE, !.rbuf = <<>>,
              !.err = IF r.err = Nil THEN ErrClosedPipe ELSE r.err]

(***************************************************************************)
(* The handshake (handshake_v1.go) and the server context.                 *)
(***************************************************************************)
keySizeV1 == 32
signSizeV1 == 32
packetSizeV1 == keySizeV1 + idSizeV1 + signSizeV1
timeWindowSizeV1 == 8
maxNonceSize == 24

CryptoAES256GCM == "aes-256-gcm"
CryptoChacha20Poly1305 == "chacha20-poly1305"
CryptoXChacha20Poly1305 == "xchacha20-poly1305"

ErrServerPubNil == "server public key is nil"
ErrPrivateKeyNil == "private key is nil"
ErrCryptoType == "crypto type error: unsupported crypto type"
ErrNewPrivateKey == "new private key error"
ErrPrivateKey == "private key error"
ErrServerPublicKey == "server public key error"
ErrECDH == "ecdh error"
ErrReadId == "read id error"
ErrWrite == "write error"
ErrRead == "read error"
ErrReplay == "replay attack"
ErrSign == "sign error"

\* cryptoFromName: [nonceSize, err]
cryptoFromName(name) ==
    IF name = CryptoAES256GCM THEN [nonceSize |-> gcmNonceSize, err |-> Nil]
    ELSE IF name = CryptoChacha20Poly1305 THEN [nonceSize |-> 12, err |-> Nil]
    ELSE IF name = CryptoXChacha20Poly1305 THEN [nonceSize |-> maxNonceSize, err |-> Nil]
    ELSE [nonceSize |-> 0, err |-> ErrCryptoType]

\* X25519: a private key is a positive number, its public key the term
\* [pub |-> priv]; the point [pub |-> 0] is of low order (ECDH rejects it).
\* An empty key is NoKey (NoPub), one that is not 32 bytes long Malformed
\* (MalformedPub).
NoKey == 0
Malformed == -1
PublicKeyOf(priv) == [pub |-> priv]
LowOrderPoint == [pub |-> 0]
NoPub == [pub |-> -2]
MalformedPub == [pub |-> -1]

\* ecdhKey / PrivateKey.ECDH: [secret, err]
ecdhKey(priv, pub) ==
    IF pub.pub = 0 THEN [secret |-> {}, err |-> ErrECDH]
    ELSE [secret |-> {priv, pub.pub}, err |-> Nil]

\* hkdf.Key(sha256.New, secret, salt, info, keyLength)
hkdfKey(secret, salt, info, keyLength) ==
    [secret |-> secret, salt |-> salt, info |-> info, len |-> keyLength]

\* hmac.New(sha256.New, key) over p, then Sum
hmacSum(key, p) == [mac |-> key, msg |-> p]

\* types.TimeWindow(unix, tolerance): the time bucket
TimeWindow(unix, tolerance) == unix \div tolerance

\* binary.LittleEndian.PutUint64 and hex.EncodeToString
RECURSIVE PutUint64(_, _)
PutUint64(v, k) == IF k = 0 THEN <<>> ELSE <<v % 256>> \o PutUint64(v \div 256, k - 1)

HexDigit == <<"0", "1", "2", "3", "4", "5", "6", "7",
              "8", "9", "a", "b", "c", "d", "e", "f">>

RECURSIVE hexEncodeToString(_)
hexEncodeToString(b) ==
    IF Len(b) = 0 THEN <<>>
    ELSE <<HexDigit[(b[1] \div 16) + 1], HexDigit[(b[1] % 16) + 1]>>
            \o hexEncodeToString(Tail(b))

hexTimeWindow(now, tolerance) ==
    hexEncodeToString(PutUint64(TimeWindow(now, tolerance), timeWindowSizeV1))

\* the 8 id bytes drawn from config.Rand
IdBytes(n) == PutUint64(n, idSizeV1)

\* the client's session key: HKDF of the shared secret, salted with the
\* 40-byte packet prefix buf[:idEndV1], bound to the client's time window
clientKey(config, shared, epub, id, now) ==
    hkdfKey(shared, <<epub, id>>, hexTimeWindow(now, config.Tolerance), keySizeV1)

\* a server that binds the session key to no time window
serverKey_NoWindow(ctx, shared, pkt, now2) ==
    hkdfKey(shared, <<pkt.epub, pkt.id>>, hexTimeWindow(0, ctx.Tolerance), keySizeV1)

\* a server that salts the session key with the id before the public key
serverKey_SaltSwapped(ctx, shared, pkt, now2) ==
    hkdfKey(shared, <<pkt.id, pkt.epub>>, hexTimeWindow(now2, ctx.Tolerance), keySizeV1)

\* the server's session key, from the packet it read
serverKey(ctx, shared, pkt, now2) ==
    hkdfKey(shared, <<pkt.epub, pkt.id>>, hexTimeWindow(now2, ctx.Tolerance), keySizeV1)

\* no key, no nonce, no packet (a nil result)
NoTerm == hkdfKey({}, <<>>, <<>>, 0)
NoInfo == [key |-> NoTerm, nonce |-> NoTerm, crypto |-> Nil]
NoPacket == [epub |-> LowOrderPoint, id |-> IdBytes(0), sign |-> hmacSum(NoTerm, <<>>)]

\* clientHandshake(w, config) at unix time now, drawing the id bytes id from
\* config.Rand; wok: the carrier takes the packet.  [err, pkt, wrote, hi]
clientHandshake(config, now, id, wok) ==
    LET c == cryptoFromName(config.CryptoType)
        priv == IF config.PrivateKey # NoKey THEN config.PrivateKey ELSE config.Generated
        epub == PublicKeyOf(priv)
        dh == ecdhKey(priv, config.ServerPub)
        hexTW == hexTimeWindow(now, config.Tolerance)
        key == clientKey(config, dh.secret, epub, id, now)
        sign == hmacSum(key, <<epub, id>>)
        nonce == hkdfKey(key, sign, hexTW, c.nonceSize)
        pkt == [epub |-> epub, id |-> id, sign |-> sign]
        fail(e) == [err |-> e, pkt |-> NoPacket, wrote |-> FALSE, hi |-> NoInfo]
    IN IF config.ServerPub = NoPub THEN fail(ErrServerPubNil)
       ELSE IF c.err # Nil THEN fail(c.err)
       ELSE IF config.PrivateKey = Malformed THEN fail(ErrNewPrivateKey)
       ELSE IF config.ServerPub = MalformedPub THEN fail(ErrServerPublicKey)
       ELSE IF dh.err # Nil THEN fail(dh.err)
       ELSE IF ~wok THEN fail(ErrWrite)
       ELSE [err |-> Nil, pkt |-> pkt, wrote |-> TRUE,
             hi |-> [key |-> key, nonce |-> nonce, crypto |-> config.CryptoType]]

\* a replay check that does not look at ctx.running
CheckReplay_NoRunning(ctx, id, now) ==
    IF id \in DOMAIN ctx.idMap THEN [seen |-> TRUE, idMap |-> ctx.idMap]
    ELSE [seen |-> FALSE,
          idMap |-> [i \in DOMAIN ctx.idMap \cup {id} |->
                        IF i = id THEN now ELSE ctx.idMap[i]]]

\* ServerContext.CheckReplay(id) at unix time now: [seen, idMap]
CheckReplay(ctx, id, now) ==
    IF ~ctx.running THEN [seen |-> TRUE, idMap |-> ctx.idMap]
    ELSE IF id \in DOMAIN ctx.idMap THEN [seen |-> TRUE, idMap |-> ctx.idMap]
    ELSE [seen |-> FALSE,
          idMap |-> [i \in DOMAIN ctx.idMap \cup {id} |->
                        IF i = id THEN now ELSE ctx.idMap[i]]]

\* a sweeper that evicts every entry
replayGCTick_All(ctx, now) == [i \in {} |-> 0]

\* a sweeper that evicts an entry as soon as it is Tolerance seconds old
replayGCTick_Early(ctx, now) ==
    LET keep == {i \in DOMAIN ctx.idMap : ~(now - ctx.idMap[i] >= ctx.Tolerance)}
    IN [i \in keep |-> ctx.idMap[i]]

\* one tick of ServerContext.replayGC at unix time now
replayGCTick(ctx, now) ==
    LET keep == {i \in DOMAIN ctx.idMap : ~(now - ctx.idMap[i] > ctx.Tolerance)}
    IN [i \in keep |-> ctx.idMap[i]]

\* a server that checks for a replay only once the signature has verified
serverHandshake_CheckLast(ctx, pkt, rok, now, now2) ==
    LET c == cryptoFromName(ctx.CryptoType)
        rp == CheckReplay(ctx, pkt.id, now)
        dh == ecdhKey(ctx.PrivateKey, pkt.epub)
        hexTW == hexTimeWindow(now2, ctx.Tolerance)
        key == serverKey(ctx, dh.secret, pkt, now2)
        sign == hmacSum(key, <<pkt.epub, pkt.id>>)
        nonce == hkdfKey(key, pkt.sign, hexTW, c.nonceSize)
        fail(e, m, rd, k) == [err |-> e, idMap |-> m, read |-> rd, key |-> k, hi |-> NoInfo]
    IN IF ctx.PrivateKey = NoKey THEN fail(ErrPrivateKeyNil, ctx.idMap, FALSE, NoTerm)
       ELSE IF c.err # Nil THEN fail(c.err, ctx.idMap, FALSE, NoTerm)
       ELSE IF ~rok THEN fail(ErrRead, ctx.idMap, FALSE, NoTerm)
       ELSE IF ctx.PrivateKey = Malformed THEN fail(ErrPrivateKey, ctx.idMap, TRUE, NoTerm)
       ELSE IF dh.err # Nil THEN fail(dh.err, ctx.idMap, TRUE, NoTerm)
       ELSE IF sign # pkt.sign THEN fail(ErrSign, ctx.idMap, TRUE, key)
       ELSE IF rp.seen THEN fail(ErrReplay, rp.idMap, TRUE, key)
       ELSE [err |-> Nil, idMap |-> rp.idMap, read |-> TRUE, key |-> key,
             hi |-> [key |-> key, nonce |-> nonce, crypto |-> ctx.CryptoType]]

\* serverHandshake(r, ctx) on the packet pkt read from the carrier (rok: the
\* 72 bytes arrive); the replay check reads the clock at now, the time
\* window at now2.  The 32 bytes of a packet always parse as an X25519
\* public key.  [err, idMap, read, key, hi]
\* a server handshake that reads the packet before it looks at its
\* configuration
serverHandshake_ReadFirst(ctx, pkt, rok, now, now2) ==
    LET c == cryptoFromName(ctx.CryptoType)
        rp == CheckReplay(ctx, pkt.id, now)
        dh == ecdhKey(ctx.PrivateKey, pkt.epub)
        hexTW == hexTimeWindow(now2, ctx.Tolerance)
        key == serverKey(ctx, dh.secret, pkt, now2)
        sign == hmacSum(key, <<pkt.epub, pkt.id>>)
        nonce == hkdfKey(key, pkt.sign, hexTW, c.nonceSize)
        fail(e, m, rd, k) == [err |-> e, idMap |-> m, read |-> rd, key |-> k, hi |-> NoInfo]
    IN IF ~rok THEN fail(ErrRead, ctx.idMap, FALSE, NoTerm)
       ELSE IF ctx.PrivateKey = NoKey THEN fail(ErrPrivateKeyNil, ctx.idMap, TRUE, NoTerm)
       ELSE IF c.err # Nil THEN fail(c.err, ctx.idMap, TRUE, NoTerm)
       ELSE IF rp.seen THEN fail(ErrReplay, rp.idMap, TRUE, NoTerm)
       ELSE IF ctx.PrivateKey = Malformed THEN fail(ErrPrivateKey, rp.idMap, TRUE, NoTerm)
       ELSE IF dh.err # Nil THEN fail(dh.err, rp.idMap, TRUE, NoTerm)
       ELSE IF sign # pkt.sign THEN fail(ErrSign, rp.idMap, TRUE, key)
       ELSE [err |-> Nil, idMap |-> rp.idMap, read |-> TRUE, key |-> key,
             hi |-> [key |-> key, nonce |-> nonce, crypto |-> ctx.CryptoType]]

serverHandshake(ctx, pkt, rok, now, now2) ==
    LET c == cryptoFromName(ctx.CryptoType)
        rp == CheckReplay(ctx, pkt.id, now)
        dh == ecdhKey(ctx.PrivateKey, pkt.epub)
        hexTW == hexTimeWindow(now2, ctx.Tolerance)
        key == serverKey(ctx, dh.secret, pkt, now2)
        sign == hmacSum(key, <<pkt.epub, pkt.id>>)
        nonce == hkdfKey(key, pkt.sign, hexTW, c.nonceSize)
        fail(e, m, rd, k) == [err |-> e, idMap |-> m, read |-> rd, key |-> k, hi |-> NoInfo]
    IN IF ctx.PrivateKey = NoKey THEN fail(ErrPrivateKeyNil, ctx.idMap, FALSE, NoTerm)
       ELSE IF c.err # Nil THEN fail(c.err, ctx.idMap, FALSE, NoTerm)
       ELSE IF ~rok THEN fail(ErrRead, ctx.idMap, FALSE, NoTerm)
       ELSE IF rp.seen THEN fail(ErrReplay, rp.idMap, TRUE, NoTerm)
       ELSE IF ctx.PrivateKey = Malformed THEN fail(ErrPrivateKey, rp.idMap, TRUE, NoTerm)
       ELSE IF dh.err # Nil THEN fail(dh.err, rp.idMap, TRUE, NoTerm)
       ELSE IF sign # pkt.sign THEN fail(ErrSign, rp.idMap, TRUE, key)
       ELSE [err |-> Nil, idMap |-> rp.idMap, read |-> TRUE, key |-> key,
             hi |-> [key |-> key, nonce |-> nonce, crypto |-> ctx.CryptoType]]

(***************************************************************************)
(* Conn: the connection object over a carrier.                             *)
(***************************************************************************)
ErrInvalidClientConfig == "stcp: invalid client config"
ErrInvalidServerConfig == "stcp: invalid server config"
ErrBrokenPipe == "write: broken pipe"
ErrCorrupt == "snappy: corrupt input"

\* the 72 bytes of a handshake packet on the carrier, and their parse
\* (the first byte of a field stands for the field)
PacketBytes(pkt) ==
    [i \in 1..packetSizeV1 |->
        [t |-> "p", i |-> i,
         p |-> IF i = 1 THEN [f |-> pkt.epub]
               ELSE IF i = keySizeV1 + 1 THEN [f |-> pkt.id]
               ELSE IF i = keySizeV1 + idSizeV1 + 1 THEN [f |-> pkt.sign]
               ELSE [f |-> 0]]]

ParsePacket(bytes) ==
    IF /\ Len(bytes) = packetSizeV1
       /\ \A i \in 1..Len(bytes) : bytes[i].t = "p" /\ bytes[i].i = i
    THEN [epub |-> bytes[1].p.f, id |-> bytes[keySizeV1 + 1].p.f,
          sign |-> bytes[keySizeV1 + idSizeV1 + 1].p.f]
    ELSE NoPacket

\* the bytes of an HKDF output used as the initial nonce: its first 8 bytes
\* (the initial counter) are head, the others stand for themselves
NonceBytes(term, head) ==
    head \o [i \in 1..(term.len - idSizeV1) |-> [of |-> term, i |-> idSizeV1 + i]]

\* a connection as constructed: the carrier, the configuration, the latch
NewConn(config) ==
    [conn |-> TRUE, config |-> TRUE, cfg |-> config,
     once |-> [done |-> FALSE, locked |-> FALSE],
     gcmReader |-> SecureReaderClose(NewSecureReader(0, gcmNonceSize,
                                                     [i \in 1..gcmNonceSize |-> 0])),
     gcmWriter |-> SecureWriterClose(NewSecureWriter(0, gcmNonceSize,
                                                     [i \in 1..gcmNonceSize |-> 0])),
     snappy |-> FALSE, zhdr |-> FALSE, zbuf |-> <<>>, zerr |-> Nil,
     stat |-> [on |-> FALSE, rn |-> 0, wn |-> 0],
     err |-> Nil]

\* Conn.init: the counting wrapper of the carrier (c.stat, nil until now),
\* and over it the reader and the writer of this endpoint
ConnInit(c, hi, head) ==
    LET size == cryptoFromName(hi.crypto).nonceSize
        nonce == NonceBytes(hi.nonce, head)
    IN [c EXCEPT !.stat = [on |-> TRUE, rn |-> 0, wn |-> 0],
                 !.gcmReader = NewSecureReader(hi.key, size, nonce),
                 !.gcmWriter = NewSecureWriter(hi.key, size, nonce),
                 !.snappy = TRUE]

\* Conn.Stat(): the bytes read from and written to the carrier as c.stat
\* counted them (outR, outW); zeros while c.stat is nil.  The counts of
\* plaintext bytes (inR, inW) are left out.
ConnStat(c) ==
    [outR |-> IF c.stat.on THEN c.stat.rn ELSE 0,
     outW |-> IF c.stat.on THEN c.stat.wn ELSE 0]

\* c.conn.SetWriteDeadline / SetReadDeadline (which: "w" or "r") to v on
\* the carrier n = [w, r, errs], errs being the errors its next deadline
\* calls return (none left: nil): [n, err]
SetDeadlineCall(n, which, v) ==
    LET e == IF n.errs = <<>> THEN Nil ELSE Head(n.errs)
        m == [n EXCEPT !.errs = IF @ = <<>> THEN @ ELSE Tail(@)]
    IN [n |-> IF e # Nil THEN m
              ELSE IF which = "w" THEN [m EXCEPT !.w = v] ELSE [m EXCEPT !.r = v],
        err |-> e]

\* what a handshake did on the carrier: how much of its I/O went through,
\* the deadline in force then, whether it went on to clear the deadline,
\* the error a deadline call returned
NoHS == [io |-> "none", during |-> "", cleared |-> FALSE, dlerr |-> Nil]

\* Conn.clientHandshake over a carrier that is open or not:
\* [c, n, out, err, hs]
ConnClientHandshake(c, n, open, now, id, head) ==
    LET d1 == SetDeadlineCall(n, "w", "now+HandshakeTimeout")
        res == clientHandshake(c.cfg, now, id, open)
        d2 == SetDeadlineCall(d1.n, "w", "none")
        wrote == [io |-> "full", during |-> d1.n.w, cleared |-> TRUE, dlerr |-> d2.err]
    IN IF ~c.config
       THEN [c |-> c, n |-> n, out |-> <<>>, err |-> ErrInvalidClientConfig, hs |-> NoHS]
       ELSE IF d1.err # Nil
       THEN [c |-> c, n |-> d1.n, out |-> <<>>, err |-> d1.err,
             hs |-> [NoHS EXCEPT !.dlerr = d1.err]]
       ELSE IF res.err # Nil
       THEN [c |-> c, n |-> d1.n, out |-> <<>>, err |-> res.err, hs |-> NoHS]
       ELSE IF d2.err # Nil
       THEN [c |-> c, n |-> d2.n, out |-> PacketBytes(res.pkt), err |-> d2.err,
             hs |-> wrote]
       ELSE [c |-> ConnInit(c, res.hi, head), n |-> d2.n, out |-> PacketBytes(res.pkt),
             err |-> Nil, hs |-> wrote]

\* Conn.serverHandshake over the bytes data the carrier holds:
\* [c, n, idMap, rest, err, hs]
ConnServerHandshake(c, n, ctx, data, ended, now, head) ==
    LET d1 == SetDeadlineCall(n, "r", "now+HandshakeTimeout")
        rd == ReadFull(data, ended, packetSizeV1, 0)
        res == serverHandshake(ctx, ParsePacket(rd.got), rd.err = Nil, now, now)
        d2 == SetDeadlineCall(d1.n, "r", "none")
        io == IF res.read THEN "full" ELSE "none"
    IN IF ~c.config
       THEN [c |-> c, n |-> n, idMap |-> ctx.idMap, rest |-> data,
             err |-> ErrInvalidServerConfig, hs |-> NoHS]
       ELSE IF d1.err # Nil
       THEN [c |-> c, n |-> d1.n, idMap |-> ctx.idMap, rest |-> data, err |-> d1.err,
             hs |-> [NoHS EXCEPT !.dlerr = d1.err]]
       ELSE IF rd.err = Blocked /\ res.err = ErrRead
       THEN [c |-> c, n |-> n, idMap |-> ctx.idMap, rest |-> data, err |-> Blocked,
             hs |-> NoHS]
       ELSE IF res.err # Nil
       THEN [c |-> c, n |-> d1.n, idMap |-> res.idMap,
             rest |-> IF res.read THEN rd.rest ELSE IF rd.err = Nil THEN data ELSE rd.rest,
             err |-> res.err,
             hs |-> [io |-> io, during |-> d1.n.r, cleared |-> FALSE, dlerr |-> Nil]]
       ELSE IF d2.err # Nil
       THEN [c |-> c, n |-> d2.n, idMap |-> res.idMap, rest |-> rd.rest, err |-> d2.err,
             hs |-> [io |-> "full", during |-> d1.n.r, cleared |-> TRUE, dlerr |-> d2.err]]
       ELSE [c |-> ConnInit(c, res.hi, head), n |-> d2.n, idMap |-> res.idMap,
             rest |-> rd.rest, err |-> Nil,
             hs |-> [io |-> "full", during |-> d1.n.r, cleared |-> TRUE, dlerr |-> d2.err]]

\* a handshake function whose error is not kept
HandshakeRecord_Forgets(c, err) == [c EXCEPT !.once = [done |-> TRUE, locked |-> FALSE]]

\* a latch that lets a caller in while another one runs the function
OnceMayEnter_NoMutex(once) == ~once.done

\* sync.Once.Do: who finds the latch not done takes its mutex, and runs the
\* function unless it was done meanwhile
OnceMayEnter(once) == ~once.done /\ ~once.locked

\* the function Conn.Handshake hands to handshakeOnce.Do, and its return
HandshakeRecord(c, err) ==
    [c EXCEPT !.err = IF err # Nil THEN err ELSE c.err,
              !.once = [done |-> TRUE, locked |-> FALSE]]

\* a Read or Write that goes on to the record layer whatever Handshake said
ConnMayIO_Always(hserr, cerr) == TRUE

\* Conn.Read / Conn.Write: reach the record layer only after a nil
\* Handshake and with no recorded error
ConnMayIO(hserr, cerr) == hserr = Nil /\ cerr = Nil

\* a Close that leaves c.conn in place
ConnClose_KeepsConn(c, cerr) ==
    [c |-> [c EXCEPT !.err = IF c.err = Nil THEN ErrClosedPipe ELSE c.err,
                     !.config = FALSE,
                     !.stat = [on |-> FALSE, rn |-> 0, wn |-> 0],
                     !.gcmReader = IF c.gcmReader.inner
                                   THEN SecureReaderClose(c.gcmReader) ELSE c.gcmReader,
                     !.gcmWriter = IF c.gcmWriter.inner
                                   THEN SecureWriterClose(c.gcmWriter) ELSE c.gcmWriter],
     err |-> IF c.conn THEN cerr ELSE Nil,
     carrier |-> IF c.conn THEN 1 ELSE 0,
     freedR |-> IF c.gcmReader.inner /\ c.gcmReader.buf THEN 1 ELSE 0,
     freedW |-> IF c.gcmWriter.inner /\ c.gcmWriter.buf THEN 1 ELSE 0]

\* Conn.Close, cerr being what the carrier's Close returns when called:
\* [c, err, carrier, freedR, freedW], the last three counting the calls of
\* c.conn.Close and of mcache.Free on the reader's and the writer's buffer
ConnClose(c, cerr) ==
    [c |-> [c EXCEPT !.err = IF c.err = Nil THEN ErrClosedPipe ELSE c.err,
                     !.conn = FALSE,
                     !.config = FALSE,
                     !.stat = [on |-> FALSE, rn |-> 0, wn |-> 0],
                     !.gcmReader = IF c.gcmReader.inner
                                   THEN SecureReaderClose(c.gcmReader) ELSE c.gcmReader,
                     !.gcmWriter = IF c.gcmWriter.inner
                                   THEN SecureWriterClose(c.gcmWriter) ELSE c.gcmWriter],
     err |-> IF c.conn THEN cerr ELSE Nil,
     carrier |-> IF c.conn THEN 1 ELSE 0,
     freedR |-> IF c.gcmReader.inner /\ c.gcmReader.buf THEN 1 ELSE 0,
     freedW |-> IF c.gcmWriter.inner /\ c.gcmWriter.buf THEN 1 ELSE 0]

\* snappy.Writer.Write then Flush: the stream identifier before the first
\* chunk, then one chunk (header, data)
snappyFrame(b, zhdr) ==
    (IF zhdr THEN <<>> ELSE << [t |-> "zs", v |-> 0] >>)
        \o << [t |-> "zh", v |-> Len(b)] >>
        \o [i \in 1..Len(b) |-> [t |-> "zd", v |-> b[i]]]

\* what a call of Conn.Handshake, Conn.Read or Conn.Write comes to:
\* [c, out, rest, got, err, nonces, io]
ConnResult(c, out, rest, got, n, err, nonces, io) ==
    [c |-> c, out |-> out, rest |-> rest, got |-> got, n |-> n, err |-> err,
     nonces |-> nonces, io |-> io]

\* a snappy.Writer that does not keep the error of its inner writer
SnappyWritten_Forgets(c, res, b, data) ==
    ConnResult([c EXCEPT !.gcmWriter = res.w, !.zhdr = TRUE], res.out, data, <<>>,
               Len(b), res.err, res.nonces, TRUE)

\* SnappyWriter.Write(b) on the connection's writer, res being what the
\* SecureWriter made of the frame Flush handed it: snappy.Writer keeps the
\* first error of its inner writer
SnappyWritten(c, res, b, data) ==
    ConnResult([c EXCEPT !.gcmWriter = res.w, !.zhdr = TRUE, !.zerr = res.err],
               res.out, data, <<>>, Len(b), res.err, res.nonces, TRUE)

\* SnappyWriter.Write(b): snappy.Writer.Write returns the error it kept, or
\* buffers b, and Flush writes the frame to the SecureWriter
SnappyWrite(c, car, b, data) ==
    IF c.zerr # Nil THEN ConnResult(c, <<>>, data, <<>>, 0, c.zerr, <<>>, TRUE)
    ELSE SnappyWritten(c, SecureWriterWrite(c.gcmWriter, car, snappyFrame(b, c.zhdr)),
                       b, data)

\* io.ReadFull over the SecureReader: [r, rest, got, err]
RECURSIVE pullFull(_, _, _, _, _)
RECURSIVE pulled(_, _, _, _)
pulled(res, ended, want, acc) ==
    IF res.err # Nil
    THEN [r |-> res.r, rest |-> res.rest, got |-> acc, err |-> res.err]
    ELSE pullFull(res.r, res.rest, ended, want, acc \o res.got)

pullFull(r, data, ended, want, acc) ==
    IF Len(acc) = want THEN [r |-> r, rest |-> data, got |-> acc, err |-> Nil]
    ELSE pulled(SecureReaderRead(r, data, ended, want - Len(acc), 0), ended, want, acc)

\* snappy.Reader: the next chunk's data: [r, rest, got, err]
RECURSIVE nextChunk(_, _, _)
chunkData(d) ==
    IF d.err # Nil THEN d
    ELSE [r |-> d.r, rest |-> d.rest, got |-> [i \in 1..Len(d.got) |-> d.got[i].v],
          err |-> Nil]

chunkHeader(h, ended) ==
    IF h.err # Nil THEN h
    ELSE IF h.got[1].t = "zs" THEN nextChunk(h.r, h.rest, ended)
    ELSE IF h.got[1].t # "zh"
         THEN [r |-> h.r, rest |-> h.rest, got |-> <<>>, err |-> ErrCorrupt]
    ELSE chunkData(pullFull(h.r, h.rest, ended, h.got[1].v, <<>>))

nextChunk(r, data, ended) == chunkHeader(pullFull(r, data, ended, 1, <<>>), ended)

\* SnappyReader.Read(dst), len(dst) = m, ch being the chunk it decoded
SnappyDecoded(c, ch, m) ==
    ConnResult([c EXCEPT !.gcmReader = ch.r, !.zbuf = Drop(ch.got, Min(m, Len(ch.got)))],
               <<>>, ch.rest, Take(ch.got, Min(m, Len(ch.got))),
               Min(m, Len(ch.got)), ch.err, <<>>, TRUE)

SnappyRead(c, data, ended, m) ==
    IF c.zbuf # <<>>
    THEN ConnResult([c EXCEPT !.zbuf = Drop(c.zbuf, Min(m, Len(c.zbuf)))],
                    <<>>, data, Take(c.zbuf, Min(m, Len(c.zbuf))),
                    Min(m, Len(c.zbuf)), Nil, <<>>, TRUE)
    ELSE SnappyDecoded(c, nextChunk(c.gcmReader, data, ended), m)

\* c.Handshake() once handshakeOnce.Do has returned
ConnHandshake(c, data) == ConnResult(c, <<>>, data, <<>>, 0, c.err, <<>>, FALSE)

\* c.Read(dst), len(dst) = m, once handshakeOnce.Do has returned
ConnRead(c, data, ended, m) ==
    IF ~ConnMayIO(c.err, c.err) THEN ConnHandshake(c, data)
    ELSE SnappyRead(c, data, ended, m)

\* c.Write(b) once handshakeOnce.Do has returned
ConnWrite(c, car, b, data) ==
    IF ~ConnMayIO(c.err, c.err) THEN ConnHandshake(c, data)
    ELSE SnappyWrite(c, car, b, data)

\* a dialer that leaves the carrier open when the handshake fails
dial_KeepsCarrier(h, open) ==
    [c |-> HandshakeRecord(h.c, h.err), h |-> h,
     ret |-> IF h.err # Nil THEN "nil" ELSE "conn", err |-> h.err, open |-> open]

\* dial, once netDialer.DialContext has connected the carrier: h is what
\* the handshake function of Client(rawConn, config) comes to when
\* conn.Handshake() runs it; on an error the carrier is closed and no
\* connection is returned: [c, h, ret, err, open]
dial(h, open) ==
    [c |-> HandshakeRecord(h.c, h.err), h |-> h,
     ret |-> IF h.err # Nil THEN "nil" ELSE "conn", err |-> h.err,
     open |-> IF h.err # Nil THEN FALSE ELSE open]

(***************************************************************************)
(* State.                                                                  *)
(***************************************************************************)
VARIABLES
    \* the record layer: one SecureWriter, its carrier, one SecureReader
    sw,        \* the SecureWriter
    sr,        \* the SecureReader
    wcar,      \* the writer's carrier: [budget, cause]
    wire,      \* every byte the carrier has taken from the writer
    rpos,      \* how many bytes of wire the reader's carrier has handed out
    ended,     \* the carrier's writing side is shut: the reader sees EOF
    sent,      \* the plaintext of the records Write reported as written
    recv,      \* the plaintext Read has delivered
    wlast,     \* the last Write call: what it found and what it did
    rlast,     \* the last Read call
    wstat,     \* bytes offered to Write so far, the first error a Write met
    \* the handshake: clients, one server context, the clock
    now,       \* time.Now().Unix()
    sctx,      \* the ServerContext: configuration, idMap, running
    made,      \* what clientHandshake has returned: [pkt, hi, tw, at, pin]
    fed,       \* per id, the last handshake on it that was no replay: [t, err],
               \* and whether a handshake on it has succeeded (won)
    hlast,     \* the last serverHandshake call: what it found and returned
    srv,       \* around the context: idMutex, the sweeper goroutine, the
               \* CheckReplay calls in flight, the listener
    \* one connection: a client and a server endpoint over one carrier
    cc,        \* per endpoint, the Conn
    thr,       \* per endpoint and goroutine, where it is in its call
    pipe,      \* per endpoint, the bytes it has written to the carrier
    rd,        \* per endpoint, how many of its peer's bytes it has read
    open,      \* the carrier is open (no side has closed it)
    prf,       \* the first 8 bytes HKDF yields for the session's nonce
    hist,      \* per endpoint, what its calls have done so far
    net        \* each endpoint's deadlines on the carrier and what its
               \* handshake did there; what the dialer returned

recVars == <<sw, sr, wcar, wire, rpos, ended, sent, recv, wlast, rlast, wstat>>
hsVars == <<now, sctx, made, fed, hlast, srv>>

connVars == <<cc, thr, pipe, rd, open, prf, hist, net>>

vars == <<recVars, hsVars, connVars>>

(***************************************************************************)
(* The record layer on its own: a writer and a reader built from the same  *)
(* key and initial nonce, the reader fed what the writer's carrier took.   *)
(***************************************************************************)
CounterSeeds ==
    { [i \in 1..idSizeV1 |-> 0],
      [i \in 1..idSizeV1 |-> IF i = 1 THEN 254 ELSE 255] }

NonceSuffix(n) == [i \in 1..n |-> 16 + i]

FailBudgets == {0, gcmHeaderSize + 1 + gcmTagSize, gcmPacketCache + 1}

\* The bytes a caller writes: the i-th byte of the stream is i, so that a
\* byte lost, repeated or out of place shows.
Payload(from, len) == [i \in 1..len |-> from + i]
FailCauses == {"i/o timeout"}

NoCall == [called |-> FALSE, b |-> <<>>, n |-> 0, err |-> Nil, wrote |-> 0,
           adv |-> FALSE, stored |-> Nil, same |-> TRUE, closed |-> FALSE]
\* a writer with no Write in progress: pc is where the Write stands, b what
\* it has still to write, bb the plaintext length of the record being
\* flushed, p what is left of that record, n and err what it returns; calls
\* counts the carrier calls of the Write that returned an error or took
\* bytes, taken the bytes they took, stalls those that took nothing and
\* returned no error (0: none; then 1 and 2 in turn)
NoWrite == [pc |-> "idle", len |-> 0, b |-> <<>>, bb |-> 0, p |-> <<>>, n |-> 0,
            err |-> Nil, calls |-> 0, taken |-> 0, stalls |-> 0, returned |-> FALSE]
NoRead == [called |-> FALSE, m |-> 0, got |-> <<>>, err |-> Nil, took |-> 0,
           adv |-> FALSE, left |-> 0, hdr |-> -1, poisoned |-> FALSE, same |-> TRUE,
           closed |-> FALSE, log |-> <<>>]

NoHandshake == [called |-> FALSE, pkt |-> NoPacket, t |-> 0, t2 |-> 0,
                prev |-> [t |-> -1, err |-> Nil, won |-> FALSE],
                running |-> FALSE, cached |-> FALSE, kept |-> FALSE,
                err |-> Nil, key |-> NoTerm, hi |-> NoInfo]

\* the goroutines that run a server handshake on the shared context
Callers == {"h1", "h2"}

\* the goroutines that call ctx.Close
Closers == {"c1", "c2"}

\* idMutex free, the sweeper waiting for its ticker, no CheckReplay call in
\* flight, the listener open, no ctx.Close call yet (closeOnce not done,
\* closeCh closed signals = 0 times)
NoSrv == [mu |-> "", gc |-> "wait", at |-> 0,
          closer |-> [g \in Closers |-> "idle"],
          once |-> [done |-> FALSE, locked |-> FALSE],
          signals |-> 0, closedAt |-> "",
          call |-> [g \in Callers |-> [pc |-> "idle", id |-> 0, ok |-> FALSE,
                                       ret |-> FALSE, conc |-> FALSE]],
          won |-> [id \in 1..2 |-> 0],
          lis |-> "open"]

Endpoints == {"client", "server"}
Goroutines == {"a", "b"}
Peer(e) == IF e = "client" THEN "server" ELSE "client"

NoOp == [called |-> FALSE, op |-> "", late |-> FALSE, closed |-> FALSE,
         hs |-> Nil, err |-> Nil, io |-> 0, wfail |-> Nil]

NoHist == [runs |-> 0, result |-> "none", closedIn |-> "", recIO |-> FALSE,
           writes |-> 0, wfail |-> Nil, sealed |-> {}, last |-> NoOp,
           shut |-> [n |-> 0, first |-> "none", cerr |-> "none", carrier |-> 0,
                     freedR |-> 0, freedW |-> 0, setter |-> "none"]]

\* a carrier with no deadline whose deadline calls return errs in turn, no
\* handshake yet, no dial yet
NoNet(errs) ==
    [car |-> [e \in Endpoints |-> [w |-> "none", r |-> "none", errs |-> errs[e]]],
     hs |-> [e \in Endpoints |-> NoHS],
     dial |-> [ret |-> "", err |-> Nil]]

DefaultConfig == [PrivateKey |-> NoKey, Generated |-> 1, ServerPub |-> PublicKeyOf(2),
                  CryptoType |-> CryptoAES256GCM, Tolerance |-> Tolerance]

\* the connection at rest
ConnQuiet ==
    /\ cc = [e \in Endpoints |-> NewConn(DefaultConfig)]
    /\ thr = [e \in Endpoints |-> [g \in Goroutines |-> "idle"]]
    /\ pipe = [e \in Endpoints |-> <<>>]
    /\ rd = [e \in Endpoints |-> 0]
    /\ open = TRUE
    /\ prf = [i \in 1..idSizeV1 |-> 0]
    /\ hist = [e \in Endpoints |-> NoHist]
    /\ net = NoNet([e \in Endpoints |-> <<>>])

\* the handshake side at rest
HSQuiet ==
    /\ now = 0
    /\ sctx = [PrivateKey |-> NoKey, Tolerance |-> Tolerance, CryptoType |-> CryptoAES256GCM,
               AuthorizedKeys |-> {}, idMap |-> <<>>, running |-> FALSE]
    /\ made = {}
    /\ fed = <<>>
    /\ hlast = NoHandshake
    /\ srv = NoSrv

RecInit ==
    /\ HSQuiet
    /\ ConnQuiet
    /\ \E seed \in CounterSeeds :
          /\ sw = NewSecureWriter(1, gcmNonceSize, seed \o NonceSuffix(gcmNonceSize - idSizeV1))
          /\ sr = NewSecureReader(1, gcmNonceSize, seed \o NonceSuffix(gcmNonceSize - idSizeV1))
    /\ wcar = [budget |-> -1, cause |-> Nil]
    /\ wire = <<>>
    /\ rpos = 0
    /\ ended = FALSE
    /\ sent = <<>>
    /\ recv = <<>>
    /\ wlast = NoCall
    /\ rlast = NoRead
    /\ wstat = [offered |-> 0, failed |-> Nil, forged |-> FALSE,
                seed |-> Take(sw.nonceId \o sw.nonceBase, sw.nonceSize),
                shut |-> [x \in {"r", "w"} |-> [n |-> 0, freed |-> 0]],
                fly |-> [pc |-> "idle", L |-> 0, res |-> Nil, fault |-> "",
                         close |-> "", at |-> ""],
                wr |-> NoWrite]

\* w.Write(b), b the next len bytes of the stream, over a carrier that takes
\* at most k bytes per call (0: all of them); same tells whether the call
\* came to what it comes to over a carrier that takes everything at once
RecWrite(len, k) ==
    /\ ~ended
    /\ wstat.offered + len <= MaxTotal
    /\ LET b == Payload(wstat.offered, len)
           res == SecureWriterWrite(sw, [k |-> k, budget |-> wcar.budget,
                                          cause |-> wcar.cause], b)
       IN /\ sw' = res.w
          /\ wcar' = [budget |-> res.c.budget, cause |-> res.c.cause]
          /\ wire' = wire \o res.out
          /\ sent' = sent \o Take(b, res.n)
          /\ wlast' = [called |-> TRUE, b |-> b, n |-> res.n, err |-> res.err,
                       wrote |-> Len(res.out), adv |-> res.w.nonceId # sw.nonceId,
                       stored |-> wstat.failed,
                       same |-> res = [SecureWriterWrite(sw,
                                          [k |-> 0, budget |-> wcar.budget,
                                           cause |-> wcar.cause], b)
                                       EXCEPT !.c.k = k],
                       closed |-> wstat.shut["w"].n > 0]
          /\ wstat' = [wstat EXCEPT !.offered = @ + Len(b),
                                    !.failed = IF @ = Nil /\ res.err \in FailCauses
                                               THEN res.err ELSE @]
    /\ UNCHANGED <<sr, rpos, ended, recv, rlast, hsVars, connVars>>

\* r.Read(dst) with len(dst) = m, over a carrier that returns at most k
\* bytes per Read (0: all that is asked for); hdr is the length field it
\* finds at the head of the carrier's data when it goes for a new record
\* (-1: it reads no header); same tells whether the call came to what it
\* comes to over a carrier that returns all that is asked for; log keeps,
\* for every call that took bytes from the carrier, hdr and their number
RecRead(m, k) ==
    LET res == SecureReaderRead(sr, Drop(wire, rpos), ended, m, k)
        hdr == IF sr.inner /\ sr.err = Nil /\ sr.readn <= 0
                  /\ Len(wire) - rpos >= gcmHeaderSize
               THEN Uint16(Take(Drop(wire, rpos), gcmHeaderSize))
               ELSE -1
    IN /\ res.err # Blocked
       /\ sr' = res.r
       /\ rpos' = Len(wire) - Len(res.rest)
       /\ recv' = recv \o res.got
       /\ rlast' = [called |-> TRUE, m |-> m, got |-> res.got, err |-> res.err,
                    took |-> Len(wire) - Len(res.rest) - rpos,
                    adv |-> res.r.nonceId # sr.nonceId, left |-> sr.readn,
                    hdr |-> hdr,
                    poisoned |-> rlast.poisoned \/ rlast.err = ErrCipher,
                    same |-> res = SecureReaderRead(sr, Drop(wire, rpos), ended, m, 0),
                    closed |-> wstat.shut["r"].n > 0,
                    log |-> IF Len(wire) - Len(res.rest) > rpos
                            THEN Append(rlast.log, <<hdr, Len(wire) - Len(res.rest) - rpos>>)
                            ELSE rlast.log]
       /\ UNCHANGED <<sw, wcar, wire, ended, sent, wlast, wstat, hsVars, connVars>>

\* the carrier starts failing (a deadline passes, the peer resets) once
\* budget more bytes went through; a run follows one such episode
CarrierFail(budget, cause) ==
    /\ wcar.budget < 0
    /\ wcar.cause = Nil
    /\ ~ended
    /\ wcar' = [wcar EXCEPT !.budget = budget, !.cause = cause]
    /\ UNCHANGED <<sw, sr, wire, rpos, ended, sent, recv, wlast, rlast, wstat, hsVars, connVars>>

\* the carrier takes data again (the deadline is cleared)
CarrierRecover ==
    /\ wcar.budget >= 0
    /\ wcar' = [wcar EXCEPT !.budget = -1]
    /\ UNCHANGED <<sw, sr, wire, rpos, ended, sent, recv, wlast, rlast, wstat, hsVars, connVars>>

\* the writing side of the carrier is shut
CarrierEnd ==
    /\ ~ended
    /\ ended' = TRUE
    /\ UNCHANGED <<sw, sr, wcar, wire, rpos, sent, recv, wlast, rlast, wstat, hsVars, connVars>>

RecNext ==
    \/ \E len \in 0..MaxWriteLen, k \in {0, ShortIO} : RecWrite(len, k)
    \/ \E m \in 0..MaxDst : RecRead(m, 0)
    \/ \E budget \in FailBudgets, cause \in FailCauses : CarrierFail(budget, cause)
    \/ CarrierRecover
    \/ CarrierEnd

SpecRec == RecInit /\ [][RecNext]_vars

(***************************************************************************)
(* The record layer over a carrier that moves only a few bytes per call:   *)
(* every Write of the carrier takes, and every Read of it returns, at most *)
(* one byte or at most ShortIO bytes.  The carrier may fail inside the     *)
(* header of a record, right after it, or inside its body.                 *)
(***************************************************************************)
ShortNext ==
    \/ \E len \in 0..MaxWriteLen, k \in {1, ShortIO} : RecWrite(len, k)
    \/ \E m \in 0..MaxDst, k \in {1, ShortIO} : RecRead(m, k)
    \/ \E budget \in {1, gcmHeaderSize, gcmHeaderSize + 1}, cause \in FailCauses :
          CarrierFail(budget, cause)
    \/ CarrierEnd

SpecShort == RecInit /\ [][ShortNext]_vars

(***************************************************************************)
(* Closing the record layer: the writer and the reader may each be closed  *)
(* any number of times (counted up to 'more than once'), and written to    *)
(* and read from before and after.                                         *)
(***************************************************************************)
\* w.Close() (x = "w") or r.Close() (x = "r"): the scratch buffer goes back
\* to the pool if the field still holds it
RecClose(x) ==
    /\ wstat' = [wstat EXCEPT
                    !.shut[x] = [n |-> Min(@.n + 1, 2),
                                 freed |-> Min(@.freed
                                     + (IF (IF x = "w" THEN sw.buf ELSE sr.buf) THEN 1 ELSE 0),
                                     2)]]
    /\ sw' = IF x = "w" THEN SecureWriterClose(sw) ELSE sw
    /\ sr' = IF x = "r" THEN SecureReaderClose(sr) ELSE sr
    /\ UNCHANGED <<wcar, wire, rpos, ended, sent, recv, wlast, rlast, hsVars, connVars>>

ShutNext ==
    \/ \E len \in 0..MaxWriteLen : RecWrite(len, 0)
    \/ \E m \in 0..MaxDst : RecRead(m, 0)
    \/ \E x \in {"r", "w"} : RecClose(x)
    \/ CarrierEnd

SpecShut == RecInit /\ [][ShutNext]_vars

(***************************************************************************)
(* The reader over a hostile carrier: besides what the writer sent, the    *)
(* carrier may hand the reader a header with any length field, followed by *)
(* bytes of its own, or damage the tag of a record in transit.  A run      *)
(* follows one such episode.                                               *)
(***************************************************************************)
\* the carrier delivers a header of length field L and g bytes that no
\* writer produced after it
WireForge(L, g) ==
    /\ ~ended
    /\ ~wstat.forged
    /\ wire' = wire \o PutUint16(L) \o [i \in 1..g |-> [t |-> "x", v |-> 0]]
    /\ wstat' = [wstat EXCEPT !.forged = TRUE]
    /\ UNCHANGED <<sw, sr, wcar, rpos, ended, sent, recv, wlast, rlast, hsVars, connVars>>

\* the carrier flips a bit in the tag of a record the reader has not read:
\* the tag authenticates nothing any writer sealed
WireCorrupt(i) ==
    /\ ~wstat.forged
    /\ i > rpos
    /\ wire[i].t = "g"
    /\ wire[i].i = 1
    /\ wire' = [wire EXCEPT ![i] = [t |-> "g", i |-> 1, p |-> [k |-> 0, n |-> <<>>, pt |-> <<>>]]]
    /\ wstat' = [wstat EXCEPT !.forged = TRUE]
    /\ UNCHANGED <<sw, sr, wcar, rpos, ended, sent, recv, wlast, rlast, hsVars, connVars>>

\* the length fields forged are the ends of each range of
\* SecureReader.read's length policy
WireNext ==
    \/ \E len \in 1..gcmPacketSize : RecWrite(len, 0)
    \/ \E m \in 0..MaxDst : RecRead(m, 0)
    \/ \E L \in {0, 1, gcmTagSize, gcmTagSize + 1, gcmPacketSize + gcmTagSize,
                 gcmPacketSize + gcmTagSize + 1, 65535} :
          WireForge(L, gcmTagSize + 1)
    \/ \E i \in 1..Len(wire) : WireCorrupt(i)
    \/ CarrierEnd

SpecWire == RecInit /\ [][WireNext]_vars

(***************************************************************************)
(* SecureWriter.Write in steps, over a carrier that decides at each call   *)
(* how many bytes it takes and whether it fails: the entry tests, the loop *)
(* over the records, and each turn of the flush loop of write.             *)
(***************************************************************************)
\* w.Write(b) is entered, b being len bytes; a run follows one Write
FlushWrite(len) ==
    /\ wstat.wr.pc = "idle"
    /\ ~wstat.wr.returned
    /\ wstat' = [wstat EXCEPT
          !.offered = @ + len,
          !.wr = IF ~sw.inner THEN [NoWrite EXCEPT !.len = len, !.err = ErrClosedPipe,
                                                   !.returned = TRUE]
                 ELSE IF sw.err # Nil THEN [NoWrite EXCEPT !.len = len, !.err = sw.err,
                                                           !.returned = TRUE]
                 ELSE [NoWrite EXCEPT !.pc = "loop", !.len = len,
                                      !.b = Payload(wstat.offered, len)]]
    /\ UNCHANGED <<sw, sr, wcar, wire, rpos, ended, sent, recv, wlast, rlast, hsVars, connVars>>

\* the test of Write's loop: it returns, or write(b) seals the next record
\* into w.buf
FlushLoop ==
    /\ wstat.wr.pc = "loop"
    /\ LET b == wstat.wr.b
           bb == IF Len(b) > gcmPacketSize THEN Take(b, gcmPacketSize) ELSE b
           rawLen == gcmHeaderSize + Len(bb) + gcmTagSize
           nn == nextNonce(sw)
       IN IF Len(b) = 0
          THEN /\ wstat' = [wstat EXCEPT !.wr.pc = "idle", !.wr.returned = TRUE]
               /\ sw' = sw
          ELSE /\ wstat' = [wstat EXCEPT
                     !.wr.pc = "flush", !.wr.bb = Len(bb),
                     !.wr.p = PutUint16(rawLen - gcmHeaderSize) \o Seal(sw.gcm, nn.nonce, bb)]
               /\ sw' = [sw EXCEPT !.nonceId = nn.id]
    /\ UNCHANGED <<sr, wcar, wire, rpos, ended, sent, recv, wlast, rlast, hsVars, connVars>>

\* w.inner.Write(p) returns (j, e) and the flush loop takes its turn; when
\* write returns, Write returns its error or moves on in b
FlushCall(j, e) ==
    /\ wstat.wr.pc = "flush"
    /\ j <= Len(wstat.wr.p)
    /\ LET wr == wstat.wr
           f == flushStep(wr.p, [n |-> j, err |-> e])
           stall == j = 0 /\ e = Nil
           counted == [wr EXCEPT !.p = f.p,
                                 !.calls = IF stall THEN @ ELSE @ + 1,
                                 !.taken = @ + j,
                                 !.stalls = IF ~stall THEN @ ELSE IF @ = 2 THEN 1 ELSE @ + 1]
       IN /\ wire' = wire \o Take(wr.p, j)
          /\ wstat' = [wstat EXCEPT !.wr =
                IF ~f.exit THEN counted
                ELSE IF f.err # Nil
                     THEN [counted EXCEPT !.pc = "idle", !.err = f.err, !.returned = TRUE]
                ELSE [counted EXCEPT !.pc = "loop", !.n = @ + wr.bb,
                                     !.b = Drop(wr.b, wr.bb)]]
          /\ sent' = IF f.exit /\ f.err = Nil THEN sent \o Take(wr.b, wr.bb) ELSE sent
    /\ UNCHANGED <<sw, sr, wcar, rpos, ended, recv, wlast, rlast, hsVars, connVars>>

\* the carrier takes nothing, one byte or all it is handed
FlushNext ==
    \/ \E len \in 0..MaxWriteLen : FlushWrite(len)
    \/ FlushLoop
    \/ \E j \in {0, 1, Len(wstat.wr.p)}, e \in FailCauses \cup {Nil} : FlushCall(j, e)

\* the goroutine in Write keeps running, and a carrier call returns
SpecFlush ==
    /\ RecInit
    /\ [][FlushNext]_vars
    /\ WF_vars(FlushLoop)
    /\ WF_vars(\E j \in {0, 1, Len(wstat.wr.p)}, e \in FailCauses \cup {Nil} : FlushCall(j, e))

(***************************************************************************)
(* Close against a Read in flight.  One goroutine is inside                *)
(* SecureReader.Read, which takes no lock and runs in steps: the header    *)
(* from the carrier, the length field out of r.buf, the body from the      *)
(* carrier, gcm.Open, the copy out of r.rbuf.  Another goroutine runs      *)
(* Conn.Close, which takes no lock either: it closes the carrier, then     *)
(* clears the reader and the writer and gives their buffers to the pool.   *)
(* wstat.fly holds the position of each, the length field the Read found,  *)
(* what the last Read returned, and the fault of a Read that touched what  *)
(* Close had cleared.                                                      *)
(***************************************************************************)
ErrNetClosed == "use of closed network connection"

\* a Read that returns: [wstat with fly updated]
FlyReturn(err) == [wstat EXCEPT !.fly.pc = "idle", !.fly.res = err]
FlyFault(what) == [wstat EXCEPT !.fly.pc = "fault", !.fly.fault = what]

\* what a goroutine that reads a field Close has cleared, with no
\* synchronisation between the two, may find: the cleared value (it then
\* panics on it) or the value from before (it then uses what was freed)
Unsynchronised == {"cleared", "stale"}

\* r.Read(dst), dst of one byte, is entered: the tests of r.inner, r.err
\* and r.readn; a leftover is copied out at once
RaceRead ==
    /\ wstat.fly.pc = "idle"
    /\ IF ~sr.inner THEN wstat' = FlyReturn(ErrClosedPipe) /\ sr' = sr
       ELSE IF sr.err # Nil THEN wstat' = FlyReturn(sr.err) /\ sr' = sr
       ELSE IF sr.readn > 0
            THEN /\ sr' = copyOut([r |-> sr, rest |-> <<>>, err |-> Nil], 1).r
                 /\ wstat' = FlyReturn(Nil)
       ELSE wstat' = [wstat EXCEPT !.fly.pc = "hdr"] /\ sr' = sr
    /\ UNCHANGED <<sw, wcar, wire, rpos, ended, sent, recv, wlast, rlast, hsVars, connVars>>

\* io.ReadFull(r.inner, p) with p a slice of r.buf taken when the call was
\* made, n bytes long: the carrier's Read returns.  On a carrier that Close
\* has closed it returns the error, or, having been copying already, the
\* bytes: into a buffer that may have gone to the pool meanwhile.
RaceReadFull(n, then) ==
    LET h == ReadFull(Drop(wire, rpos), ended, n, 0)
    IN \/ /\ wstat.fly.close # ""
          /\ wstat' = FlyReturn(ErrNetClosed)
          /\ rpos' = rpos
       \/ /\ h.err \notin {Nil, Blocked}
          /\ wstat.fly.close = ""
          /\ wstat' = FlyReturn(h.err)
          /\ rpos' = Len(wire) - Len(h.rest)
       \/ /\ h.err = Nil
          /\ rpos' = Len(wire) - Len(h.rest)
          /\ wstat' = IF ~sr.buf THEN FlyFault("carrier wrote into the freed buf")
                      ELSE [wstat EXCEPT !.fly.pc = then,
                                         !.fly.L = IF then = "len" THEN Uint16(h.got) ELSE @]

RaceHeader ==
    /\ wstat.fly.pc = "hdr"
    /\ RaceReadFull(gcmHeaderSize, "len")
    /\ UNCHANGED <<sw, sr, wcar, wire, ended, sent, recv, wlast, rlast, hsVars, connVars>>

\* rawLen is read out of r.buf[:2], tested, and r.inner and
\* r.buf[2:2+rawLen] are taken for the second io.ReadFull
RaceLength ==
    /\ wstat.fly.pc = "len"
    /\ LET rawLen == wstat.fly.L
       IN IF ~sr.buf
          THEN \E seen \in Unsynchronised :
                  wstat' = FlyFault(IF seen = "cleared" THEN "r.buf[:2] of a nil r.buf"
                                    ELSE "read of the freed buf")
          ELSE IF rawLen = 0 THEN wstat' = FlyReturn(EOF)
          ELSE IF rawLen > gcmPacketCache - gcmHeaderSize THEN wstat' = FlyReturn(ErrTooLong)
          ELSE IF rawLen <= gcmTagSize THEN wstat' = FlyReturn(ErrTooShort)
          ELSE wstat' = [wstat EXCEPT !.fly.pc = "body"]
    /\ UNCHANGED <<sw, sr, wcar, wire, rpos, ended, sent, recv, wlast, rlast, hsVars, connVars>>

RaceBody ==
    /\ wstat.fly.pc = "body"
    /\ RaceReadFull(wstat.fly.L, "open")
    /\ UNCHANGED <<sw, sr, wcar, wire, ended, sent, recv, wlast, rlast, hsVars, connVars>>

\* r.gcm.Open(r.rbuf[:0], r.nextNonce(), r.buf[2:2+rawLen], nil)
RaceOpen ==
    /\ wstat.fly.pc = "open"
    /\ LET nn == nextNonce(sr)
           o == Open(sr.gcm, nn.nonce, SubSeq(wire, rpos - wstat.fly.L + 1, rpos))
       IN IF ~sr.buf
          THEN /\ \E seen \in Unsynchronised :
                     wstat' = FlyFault(IF seen = "cleared" THEN "Open on a nil r.gcm"
                                       ELSE "Open on the freed buf")
               /\ sr' = sr
          ELSE IF o.err # Nil
               THEN /\ sr' = [sr EXCEPT !.nonceId = nn.id]
                    /\ wstat' = FlyReturn(o.err)
          ELSE /\ sr' = [sr EXCEPT !.nonceId = nn.id, !.rbuf = o.pt, !.readn = Len(o.pt)]
               /\ wstat' = [wstat EXCEPT !.fly.pc = "copy"]
    /\ UNCHANGED <<sw, wcar, wire, rpos, ended, sent, recv, wlast, rlast, hsVars, connVars>>

\* back in Read: copy(b, r.rbuf[:r.readn]) and the move of the leftover
RaceCopy ==
    /\ wstat.fly.pc = "copy"
    /\ IF ~sr.buf
       THEN /\ \E seen \in Unsynchronised :
                  wstat' = FlyFault(IF seen = "cleared" THEN "r.rbuf[:readn] of a nil r.rbuf"
                                    ELSE "copy out of the freed buf")
            /\ sr' = sr
       ELSE /\ sr' = copyOut([r |-> sr, rest |-> <<>>, err |-> Nil], 1).r
            /\ wstat' = FlyReturn(Nil)
    /\ UNCHANGED <<sw, wcar, wire, rpos, ended, sent, recv, wlast, rlast, hsVars, connVars>>

\* Conn.Close, first half: c.err is set and the carrier is closed
RaceCloseCarrier ==
    /\ wstat.fly.close = ""
    /\ wstat' = [wstat EXCEPT !.fly.close = "carrier", !.fly.at = wstat.fly.pc]
    /\ UNCHANGED <<sw, sr, wcar, wire, rpos, ended, sent, recv, wlast, rlast, hsVars, connVars>>

\* Conn.Close, second half: c.gcmReader.Close() and c.gcmWriter.Close()
RaceCloseRecords ==
    /\ wstat.fly.close = "carrier"
    /\ sr' = SecureReaderClose(sr)
    /\ sw' = SecureWriterClose(sw)
    /\ wstat' = [wstat EXCEPT !.fly.close = "done"]
    /\ UNCHANGED <<wcar, wire, rpos, ended, sent, recv, wlast, rlast, hsVars, connVars>>

RaceNext ==
    \/ wstat.fly.close = "" /\ wstat.offered = 0 /\ RecWrite(gcmPacketSize, 0)
    \/ \E L \in {0, gcmTagSize, gcmPacketSize + gcmTagSize + 1} :
          wstat.fly.close = "" /\ wstat.fly.pc = "idle" /\ WireForge(L, 0)
    \/ RaceRead
    \/ RaceHeader
    \/ RaceLength
    \/ RaceBody
    \/ RaceOpen
    \/ RaceCopy
    \/ RaceCloseCarrier
    \/ RaceCloseRecords
    \/ CarrierEnd

SpecRace == RecInit /\ [][RaceNext]_vars

(***************************************************************************)
(* The handshake on its own: clients that build packets, one server        *)
(* context that is fed them (in any order, any number of times, forged or  *)
(* not), the clock and the replay sweeper.                                 *)
(***************************************************************************)
ClientKeys == {1}
ServerKeys == {2}
PinnedKeys == {PublicKeyOf(k) : k \in ServerKeys \cup {3}}
CryptoTypes == {CryptoAES256GCM, CryptoChacha20Poly1305, CryptoXChacha20Poly1305}
\* ServerContext.AuthorizedKeys: none, or the public key of a client that is
\* not among ClientKeys
AuthorizedSets == {{}, {PublicKeyOf(4)}}

\* the record layer at rest
RecQuiet ==
    /\ sw = NewSecureWriter(1, gcmNonceSize, [i \in 1..gcmNonceSize |-> 0])
    /\ sr = NewSecureReader(1, gcmNonceSize, [i \in 1..gcmNonceSize |-> 0])
    /\ wcar = [budget |-> -1, cause |-> Nil]
    /\ wire = <<>>
    /\ rpos = 0
    /\ ended = FALSE
    /\ sent = <<>>
    /\ recv = <<>>
    /\ wlast = NoCall
    /\ rlast = NoRead
    /\ wstat = [offered |-> 0, failed |-> Nil, forged |-> FALSE,
                seed |-> [i \in 1..gcmNonceSize |-> 0],
                shut |-> [x \in {"r", "w"} |-> [n |-> 0, freed |-> 0]],
                fly |-> [pc |-> "idle", L |-> 0, res |-> Nil, fault |-> "",
                         close |-> "", at |-> ""],
                wr |-> NoWrite]

HSInit ==
    /\ RecQuiet
    /\ ConnQuiet
    /\ now = 0
    /\ \E k \in ServerKeys, ct \in CryptoTypes, auth \in AuthorizedSets :
          sctx = [PrivateKey |-> k, Tolerance |-> Tolerance, CryptoType |-> ct,
                  AuthorizedKeys |-> auth, idMap |-> <<>>, running |-> TRUE]
    /\ made = {}
    /\ fed = <<>>
    /\ hlast = NoHandshake
    /\ srv = NoSrv

\* a client runs clientHandshake into a buffer; the run follows one packet
HSClient(config, n) ==
    /\ made = {}
    /\ LET res == clientHandshake(config, now, IdBytes(n), TRUE)
       IN /\ res.err = Nil
          /\ made' = {[pkt |-> res.pkt, hi |-> res.hi,
                       tw |-> TimeWindow(now, config.Tolerance),
                       at |-> now, pin |-> config.ServerPub]}
    /\ UNCHANGED <<now, sctx, fed, hlast, srv, recVars, connVars>>

\* a packet with its signature bytes changed
Tampered(pkt) == [pkt EXCEPT !.sign = hmacSum(NoTerm, <<pkt.epub, pkt.id>>)]

\* an all-zero packet but for its id
ZeroPacket(n) == [NoPacket EXCEPT !.id = IdBytes(n)]

\* the server runs serverHandshake on 72 bytes from the carrier; the clock
\* may tick (d) between the replay check and the time window
HSServer(pkt, d) ==
    /\ now + d <= MaxTime
    /\ LET res == serverHandshake(sctx, pkt, TRUE, now, now + d)
       IN /\ sctx' = [sctx EXCEPT !.idMap = res.idMap]
          /\ hlast' = [called |-> TRUE, pkt |-> pkt, t |-> now, t2 |-> now + d,
                       prev |-> IF pkt.id \in DOMAIN fed THEN fed[pkt.id]
                                ELSE [t |-> -1, err |-> Nil, won |-> FALSE],
                       running |-> sctx.running,
                       cached |-> pkt.id \in DOMAIN sctx.idMap,
                       kept |-> /\ pkt.id \in DOMAIN res.idMap
                                /\ res.idMap[pkt.id] =
                                      (IF pkt.id \in DOMAIN sctx.idMap
                                       THEN sctx.idMap[pkt.id] ELSE now),
                       err |-> res.err, key |-> res.key, hi |-> res.hi]
          /\ fed' = IF res.err = ErrReplay THEN fed
                    ELSE [i \in DOMAIN fed \cup {pkt.id} |->
                            IF i = pkt.id
                            THEN [t |-> now, err |-> res.err,
                                  won |-> \/ res.err = Nil
                                          \/ (i \in DOMAIN fed /\ fed[i].won)]
                            ELSE fed[i]]
    /\ now' = now + d
    /\ UNCHANGED <<made, srv, recVars, connVars>>

\* a second passes
HSTick ==
    /\ now < MaxTime
    /\ now' = now + 1
    /\ UNCHANGED <<sctx, made, fed, hlast, srv, recVars, connVars>>

\* the sweeper's ticker fires
HSReplayGC ==
    /\ sctx.running
    /\ sctx' = [sctx EXCEPT !.idMap = replayGCTick(sctx, now)]
    /\ UNCHANGED <<now, made, fed, hlast, srv, recVars, connVars>>

\* ServerContext.Close
HSClose ==
    /\ sctx.running
    /\ sctx' = [sctx EXCEPT !.running = FALSE]
    /\ UNCHANGED <<now, made, fed, hlast, srv, recVars, connVars>>

HSNext ==
    \/ \E k \in ClientKeys, pin \in PinnedKeys, n \in 1..2 :
          HSClient([PrivateKey |-> k, Generated |-> k, ServerPub |-> pin,
                    CryptoType |-> sctx.CryptoType, Tolerance |-> sctx.Tolerance], n)
    \/ \E m \in made, d \in 0..2 : HSServer(m.pkt, d)
    \/ \E m \in made : HSServer(Tampered(m.pkt), 0)
    \/ \E n \in 1..2 : HSServer(ZeroPacket(n), 0)
    \/ HSTick
    \/ HSReplayGC
    \/ HSClose

SpecHS == HSInit /\ [][HSNext]_vars

(***************************************************************************)
(* The server context shared by the connections of a listener: server      *)
(* handshakes call CheckReplay concurrently, the sweeper goroutine runs    *)
(* replayGC, the listener is closed.  CheckReplay is taken step by step:   *)
(* the load of running, idMutex.Lock, the lookup, the insert and return.   *)
(* srv.won counts, per id, the calls that returned false since the id was  *)
(* last absent from the cache.                                             *)
(***************************************************************************)
CtxInit ==
    /\ RecQuiet
    /\ ConnQuiet
    /\ now = 0
    /\ sctx = [PrivateKey |-> 2, Tolerance |-> Tolerance, CryptoType |-> CryptoAES256GCM,
               AuthorizedKeys |-> {}, idMap |-> <<>>, running |-> TRUE]
    /\ made = {}
    /\ fed = <<>>
    /\ hlast = NoHandshake
    /\ srv = NoSrv

\* a mutex that excludes nobody
MutexFree_Never(mu) == TRUE

\* sync.RWMutex.Lock succeeds when nobody holds the mutex
MutexFree(mu) == mu = ""

\* g calls ctx.CheckReplay(id): a context that is not running answers true
\* at once
CheckCall(g, id) ==
    LET inflight == {h \in Callers \ {g} :
                        /\ srv.call[h].pc \in {"lock", "held"}
                        /\ srv.call[h].id = id}
        conc == inflight # {} /\ id \notin DOMAIN sctx.idMap
    IN /\ srv.call[g].pc \in {"idle", "done"}
       /\ srv' = [srv EXCEPT !.call =
                    [h \in Callers |->
                        IF h = g
                        THEN [pc |-> IF sctx.running THEN "lock" ELSE "done",
                              id |-> id, ok |-> FALSE, ret |-> ~sctx.running,
                              conc |-> sctx.running /\ conc]
                        ELSE IF sctx.running /\ conc /\ h \in inflight
                        THEN [srv.call[h] EXCEPT !.conc = TRUE]
                        ELSE srv.call[h]]]
       /\ UNCHANGED <<now, sctx, made, fed, hlast, recVars, connVars>>

\* g takes idMutex and looks its id up in idMap
CheckLocked(g) ==
    /\ srv.call[g].pc = "lock"
    /\ MutexFree(srv.mu)
    /\ srv' = [srv EXCEPT !.mu = g,
                          !.call[g].pc = "held",
                          !.call[g].ok = srv.call[g].id \in DOMAIN sctx.idMap]
    /\ UNCHANGED <<now, sctx, made, fed, hlast, recVars, connVars>>

\* g inserts its id if the lookup did not find it, and returns (the
\* deferred Unlock runs)
CheckInsert(g) ==
    LET c == srv.call[g]
    IN /\ c.pc = "held"
       /\ sctx' = IF c.ok THEN sctx
                  ELSE [sctx EXCEPT !.idMap = [i \in DOMAIN sctx.idMap \cup {c.id} |->
                                                 IF i = c.id THEN now ELSE sctx.idMap[i]]]
       /\ srv' = [srv EXCEPT !.mu = "",
                             !.call[g].pc = "done",
                             !.call[g].ret = c.ok,
                             !.won[c.id] = IF c.ok THEN @ ELSE @ + 1]
       /\ UNCHANGED <<now, made, fed, hlast, recVars, connVars>>

\* the sweeper's ticker fires: replayGC reads the clock
GCFire ==
    /\ srv.gc = "wait"
    /\ srv' = [srv EXCEPT !.gc = "tick", !.at = now]
    /\ UNCHANGED <<now, sctx, made, fed, hlast, recVars, connVars>>

\* replayGC takes idMutex
GCLock ==
    /\ srv.gc = "tick"
    /\ MutexFree(srv.mu)
    /\ srv' = [srv EXCEPT !.gc = "sweep", !.mu = "gc"]
    /\ UNCHANGED <<now, sctx, made, fed, hlast, recVars, connVars>>

\* replayGC deletes the old entries, unlocks and goes back to its select
GCSweep ==
    /\ srv.gc = "sweep"
    /\ LET kept == replayGCTick(sctx, srv.at)
       IN /\ sctx' = [sctx EXCEPT !.idMap = kept]
          /\ srv' = [srv EXCEPT !.gc = "wait", !.at = 0, !.mu = "",
                                !.won = [id \in DOMAIN srv.won |->
                                           IF id \in DOMAIN sctx.idMap \ DOMAIN kept
                                           THEN 0 ELSE srv.won[id]]]
    /\ UNCHANGED <<now, made, fed, hlast, recVars, connVars>>

\* replayGC finds closeCh closed, stops its ticker and returns
GCStop ==
    /\ srv.gc = "wait"
    /\ ~sctx.running
    /\ srv' = [srv EXCEPT !.gc = "stopped"]
    /\ UNCHANGED <<now, sctx, made, fed, hlast, recVars, connVars>>

\* listener.Close: the carrier listener's Close succeeds (ok) or returns an
\* error; after a success ctx.Close stores running = false, closes closeCh
\* and waits for the sweeper
ListenerClose(ok) ==
    /\ srv.lis \in {"open", "failed"}
    /\ srv' = [srv EXCEPT !.lis = IF ~ok THEN "failed"
                                  ELSE IF srv.gc = "stopped" THEN "closed"
                                  ELSE "closing"]
    /\ sctx' = [sctx EXCEPT !.running = IF ok THEN FALSE ELSE @]
    /\ UNCHANGED <<now, made, fed, hlast, recVars, connVars>>

\* ctx.wait.Wait() returns once replayGC has returned: listener.Close
\* returns nil
ListenerClosed ==
    /\ srv.lis = "closing"
    /\ srv.gc = "stopped"
    /\ srv' = [srv EXCEPT !.lis = "closed"]
    /\ UNCHANGED <<now, sctx, made, fed, hlast, recVars, connVars>>

CtxNext ==
    \/ \E g \in Callers, id \in 1..2 : CheckCall(g, id)
    \/ \E g \in Callers : CheckLocked(g)
    \/ \E g \in Callers : CheckInsert(g)
    \/ GCFire
    \/ GCLock
    \/ GCSweep
    \/ GCStop
    \/ \E ok \in BOOLEAN : ListenerClose(ok)
    \/ ListenerClosed
    \/ HSTick

SpecCtx == CtxInit /\ [][CtxNext]_vars

(***************************************************************************)
(* Closing the server context: two goroutines call ctx.Close, any number   *)
(* of times, while the sweeper waits, has woken up or holds idMutex, and   *)
(* while a server handshake calls CheckReplay.  Goroutines that can take a *)
(* step take it in the end, and a select with a closed closeCh takes that  *)
(* case in the end.                                                        *)
(***************************************************************************)
\* a Close that does not wait for the sweeper
CtxCloseReturn_NoWait(g) ==
    \/ /\ srv.closer[g] = "waiting"
       /\ srv' = [srv EXCEPT !.closer[g] = "returned",
                             !.once = [done |-> TRUE, locked |-> FALSE]]
       /\ UNCHANGED <<now, sctx, made, fed, hlast, recVars, connVars>>
    \/ /\ srv.closer[g] = "blocked"
       /\ srv.once.done
       /\ srv' = [srv EXCEPT !.closer[g] = "returned"]
       /\ UNCHANGED <<now, sctx, made, fed, hlast, recVars, connVars>>

\* g calls ctx.Close(): closeOnce.Do returns at once when done, waits for
\* its mutex while another call runs the function, and otherwise runs it:
\* running.Store(false), close(closeCh), and then wait.Wait()
CtxCloseCall(g) ==
    /\ srv.closer[g] \in {"idle", "returned"}
    /\ IF srv.once.done
       THEN /\ srv' = [srv EXCEPT !.closer[g] = "returned"]
            /\ UNCHANGED sctx
       ELSE IF OnceMayEnter(srv.once)
       THEN /\ srv' = [srv EXCEPT !.closer[g] = "waiting",
                                  !.once.locked = TRUE,
                                  !.signals = @ + 1,
                                  !.closedAt = srv.gc]
            /\ sctx' = [sctx EXCEPT !.running = FALSE]
       ELSE /\ srv' = [srv EXCEPT !.closer[g] = "blocked"]
            /\ UNCHANGED sctx
    /\ UNCHANGED <<now, made, fed, hlast, recVars, connVars>>

\* wait.Wait() returns once replayGC has returned (its deferred wait.Done
\* ran): the function ends, closeOnce is done and Close returns; a call
\* that waited for closeOnce's mutex finds it done and returns
CtxCloseReturn(g) ==
    \/ /\ srv.closer[g] = "waiting"
       /\ srv.gc = "stopped"
       /\ srv' = [srv EXCEPT !.closer[g] = "returned",
                             !.once = [done |-> TRUE, locked |-> FALSE]]
       /\ UNCHANGED <<now, sctx, made, fed, hlast, recVars, connVars>>
    \/ /\ srv.closer[g] = "blocked"
       /\ srv.once.done
       /\ srv' = [srv EXCEPT !.closer[g] = "returned"]
       /\ UNCHANGED <<now, sctx, made, fed, hlast, recVars, connVars>>

StopNext ==
    \/ \E g \in Closers : CtxCloseCall(g)
    \/ \E g \in Closers : CtxCloseReturn(g)
    \/ GCFire
    \/ GCLock
    \/ GCSweep
    \/ GCStop
    \/ \E id \in 1..2 : CheckCall("h1", id)
    \/ CheckLocked("h1")
    \/ CheckInsert("h1")
    \/ HSTick

SpecStop ==
    /\ CtxInit
    /\ [][StopNext]_vars
    /\ WF_vars(GCLock)
    /\ WF_vars(GCSweep)
    /\ SF_vars(GCStop)
    /\ WF_vars(CheckInsert("h1"))
    /\ \A g \in Closers : WF_vars(CtxCloseReturn(g))

(***************************************************************************)
(* One connection: a client Conn and a server Conn over one carrier, each  *)
(* used by two goroutines that call Handshake, Read and Write; either side *)
(* may Close when none of its calls is in flight.                          *)
(***************************************************************************)
Ops == {"Handshake", "Read", "Write"}

Lifecycle(e) ==
    IF ~cc[e].once.done THEN "pre-handshake"
    ELSE IF hist[e].result = Nil THEN "ready"
    ELSE "failed"

ConnStart ==
    /\ RecQuiet
    /\ now = 0
    /\ made = {}
    /\ fed = <<>>
    /\ hlast = NoHandshake
    /\ srv = NoSrv
    /\ \E k \in ServerKeys, pin \in PinnedKeys :
          /\ sctx = [PrivateKey |-> k, Tolerance |-> Tolerance,
                     CryptoType |-> CryptoAES256GCM, AuthorizedKeys |-> {},
                     idMap |-> <<>>, running |-> TRUE]
          /\ cc = [e \in Endpoints |-> NewConn([DefaultConfig EXCEPT !.ServerPub = pin])]
    /\ thr = [e \in Endpoints |-> [g \in Goroutines |-> "idle"]]
    /\ pipe = [e \in Endpoints |-> <<>>]
    /\ rd = [e \in Endpoints |-> 0]
    /\ open = TRUE
    /\ prf \in CounterSeeds
    /\ hist = [e \in Endpoints |-> NoHist]
    /\ net = NoNet([e \in Endpoints |-> <<>>])

\* goroutine g calls c.Handshake, c.Read or c.Write and finds the latch not
\* done: it enters handshakeOnce.Do's slow path.  Which of the three it
\* called shows only once Do has returned: it is drawn there.
ConnCall(e, g) ==
    /\ thr[e][g] = "idle"
    /\ ~cc[e].once.done
    /\ thr' = [thr EXCEPT ![e][g] = "do"]
    /\ UNCHANGED <<cc, pipe, rd, open, prf, hist, net, recVars, hsVars>>

\* g gets the latch's mutex and starts the handshake function
OnceLock(e, g) ==
    /\ thr[e][g] = "do"
    /\ OnceMayEnter(cc[e].once)
    /\ cc' = [cc EXCEPT ![e].once.locked = TRUE]
    /\ thr' = [thr EXCEPT ![e][g] = "fn"]
    /\ hist' = [hist EXCEPT ![e].runs = @ + 1]
    /\ UNCHANGED <<pipe, rd, open, prf, net, recVars, hsVars>>

\* the client's handshake function runs to its end: the error is recorded
\* and the latch is done
OnceRunClient(g) ==
    /\ thr["client"][g] = "fn"
    /\ LET res == ConnClientHandshake(cc["client"], net.car["client"], open, now,
                                      IdBytes(1), prf)
       IN /\ cc' = [cc EXCEPT !["client"] = HandshakeRecord(res.c, res.err)]
          /\ pipe' = [pipe EXCEPT !["client"] = @ \o res.out]
          /\ hist' = [hist EXCEPT !["client"].result = res.err]
          /\ net' = [net EXCEPT !.car["client"] = res.n, !.hs["client"] = res.hs]
    /\ thr' = [thr EXCEPT !["client"][g] = "do"]
    /\ UNCHANGED <<rd, open, prf, recVars, hsVars>>

\* a server handshake that takes everything the carrier holds
OnceRunServer_ReadsAll(g) ==
    /\ thr["server"][g] = "fn"
    /\ LET res == ConnServerHandshake(cc["server"], net.car["server"], sctx,
                                      Drop(pipe["client"], rd["server"]), ~open, now, prf)
       IN /\ res.err # Blocked
          /\ cc' = [cc EXCEPT !["server"] = HandshakeRecord(res.c, res.err)]
          /\ sctx' = [sctx EXCEPT !.idMap = res.idMap]
          /\ rd' = [rd EXCEPT !["server"] = Len(pipe["client"])]
          /\ hist' = [hist EXCEPT !["server"].result = res.err]
          /\ net' = [net EXCEPT !.car["server"] = res.n, !.hs["server"] = res.hs]
    /\ thr' = [thr EXCEPT !["server"][g] = "do"]
    /\ UNCHANGED <<pipe, open, prf, now, made, fed, hlast, srv, recVars>>

\* the server's handshake function runs to its end, once the carrier holds
\* 72 bytes or has been closed
OnceRunServer(g) ==
    /\ thr["server"][g] = "fn"
    /\ LET res == ConnServerHandshake(cc["server"], net.car["server"], sctx,
                                      Drop(pipe["client"], rd["server"]), ~open, now, prf)
       IN /\ res.err # Blocked
          /\ cc' = [cc EXCEPT !["server"] = HandshakeRecord(res.c, res.err)]
          /\ sctx' = [sctx EXCEPT !.idMap = res.idMap]
          /\ rd' = [rd EXCEPT !["server"] = Len(pipe["client"]) - Len(res.rest)]
          /\ hist' = [hist EXCEPT !["server"].result = res.err]
          /\ net' = [net EXCEPT !.car["server"] = res.n, !.hs["server"] = res.hs]
    /\ thr' = [thr EXCEPT !["server"][g] = "do"]
    /\ UNCHANGED <<pipe, open, prf, now, made, fed, hlast, srv, recVars>>

\* a call of op, back from handshakeOnce.Do, comes to res: Handshake
\* returned c.err; Read and Write went on to the record layer if they
\* might.  The record layer reads and writes through c.stat, whose Read and
\* Write count the bytes the carrier moved.
Complete(e, g, op, late, res) ==
    /\ res.err # Blocked
    /\ cc' = [cc EXCEPT ![e] = [res.c EXCEPT
                 !.stat = IF ~@.on THEN @
                          ELSE [on |-> TRUE,
                                rn |-> @.rn + Len(pipe[Peer(e)]) - Len(res.rest) - rd[e],
                                wn |-> @.wn + Len(res.out)]]]
    /\ pipe' = [pipe EXCEPT ![e] = @ \o res.out]
    /\ rd' = [rd EXCEPT ![e] = Len(pipe[Peer(e)]) - Len(res.rest)]
    /\ thr' = [thr EXCEPT ![e][g] = "idle"]
    /\ hist' = [hist EXCEPT
          ![e].recIO = @ \/ res.io,
          ![e].sealed = @ \cup {[by |-> e, seq |-> Cardinality(hist[e].sealed) + i,
                                 key |-> cc[e].gcmWriter.gcm, nonce |-> res.nonces[i]] :
                                   i \in 1..Len(res.nonces)},
          ![e].writes = IF op = "Write" /\ hist[e].wfail = Nil THEN @ + 1 ELSE @,
          ![e].wfail = IF @ = Nil /\ op = "Write" /\ res.io THEN res.err ELSE @,
          ![e].last = [called |-> TRUE, op |-> op, late |-> late,
                       closed |-> hist[e].closedIn # "",
                       hs |-> cc[e].err, err |-> res.err,
                       io |-> Len(res.out) + Len(pipe[Peer(e)]) - Len(res.rest) - rd[e],
                       wfail |-> hist[e].wfail]]
    /\ UNCHANGED <<open, prf, net, recVars, hsVars>>

\* the carrier under this endpoint's writer (a closed one fails, and so
\* does one whose write deadline has passed), and what it holds for its
\* reader
Carrier(e) ==
    [k |-> 0,
     budget |-> IF open /\ net.car[e].w # "passed" THEN -1 ELSE 0,
     cause |-> IF open THEN "i/o timeout" ELSE ErrBrokenPipe]
Inbound(e) == Drop(pipe[Peer(e)], rd[e])

\* the call's body; the Writes of an endpoint are counted up to the first
\* that fails on the carrier
ConnDo(e, g, op, late) ==
    \/ /\ op = "Handshake"
       /\ Complete(e, g, op, late, ConnHandshake(cc[e], Inbound(e)))
    \/ /\ op = "Read"
       /\ Complete(e, g, op, late, ConnRead(cc[e], Inbound(e), ~open, MaxDst))
    \/ /\ op = "Write"
       /\ (hist[e].writes < MaxConnWrites \/ hist[e].wfail # Nil)
       /\ Complete(e, g, op, late,
                   ConnWrite(cc[e], Carrier(e), Payload(hist[e].writes, 1), Inbound(e)))

\* g, which waited in handshakeOnce.Do or ran the function, finds the latch
\* done and goes on
ConnReturn(e, g, op) ==
    /\ thr[e][g] = "do"
    /\ cc[e].once.done
    /\ ConnDo(e, g, op, FALSE)

\* g calls c.Handshake, c.Read or c.Write when the latch is done
ConnLateCall(e, g, op) ==
    /\ thr[e][g] = "idle"
    /\ cc[e].once.done
    /\ ConnDo(e, g, op, TRUE)

\* c.Close(), with no call of this endpoint in flight; the carrier's Close
\* returns cerr.  The calls are counted up to "more than once".
ConnCloseCall(e, cerr) ==
    /\ \A g \in Goroutines : thr[e][g] = "idle"
    /\ LET res == ConnClose(cc[e], cerr)
       IN /\ cc' = [cc EXCEPT ![e] = res.c]
          /\ open' = (open /\ res.carrier = 0)
          /\ hist' = [hist EXCEPT
                ![e].closedIn = IF @ = "" THEN Lifecycle(e) ELSE @,
                ![e].shut = [n |-> Min(@.n + 1, 2),
                             first |-> IF @.n = 0 THEN res.err ELSE @.first,
                             cerr |-> IF @.n = 0 THEN cerr ELSE @.cerr,
                             carrier |-> Min(@.carrier + res.carrier, 2),
                             freedR |-> Min(@.freedR + res.freedR, 2),
                             freedW |-> Min(@.freedW + res.freedW, 2),
                             setter |-> @.setter]]
    /\ UNCHANGED <<thr, pipe, rd, prf, net, recVars, hsVars>>

ConnNext ==
    \/ \E e \in Endpoints, g \in Goroutines : ConnCall(e, g)
    \/ \E e \in Endpoints, g \in Goroutines : OnceLock(e, g)
    \/ \E g \in Goroutines : OnceRunClient(g)
    \/ \E g \in Goroutines : OnceRunServer(g)
    \/ \E e \in Endpoints, g \in Goroutines, op \in Ops : ConnReturn(e, g, op)
    \/ \E e \in Endpoints, g \in Goroutines, op \in Ops : ConnLateCall(e, g, op)
    \/ \E e \in Endpoints : hist[e].shut.n = 0 /\ ConnCloseCall(e, Nil)

SpecConn == ConnStart /\ [][ConnNext]_vars

(***************************************************************************)
(* A dialed connection: the client end is made by dial, which runs its     *)
(* handshake; the server end runs its handshake on its first call.  The    *)
(* carrier's deadline calls may return errors, and each side may set or    *)
(* clear its write deadline.  One goroutine per endpoint.                  *)
(***************************************************************************)
DialStart ==
    /\ RecQuiet
    /\ now = 0
    /\ made = {}
    /\ fed = <<>>
    /\ hlast = NoHandshake
    /\ srv = NoSrv
    /\ \E k \in ServerKeys, pin \in PinnedKeys :
          /\ sctx = [PrivateKey |-> k, Tolerance |-> Tolerance,
                     CryptoType |-> CryptoAES256GCM, AuthorizedKeys |-> {},
                     idMap |-> <<>>, running |-> TRUE]
          /\ cc = [e \in Endpoints |-> NewConn([DefaultConfig EXCEPT !.ServerPub = pin])]
    /\ thr = [e \in Endpoints |-> [g \in Goroutines |-> "idle"]]
    /\ pipe = [e \in Endpoints |-> <<>>]
    /\ rd = [e \in Endpoints |-> 0]
    /\ open = TRUE
    /\ prf = [i \in 1..idSizeV1 |-> 0]
    /\ hist = [e \in Endpoints |-> NoHist]
    /\ \E errs \in [Endpoints -> {<<>>, <<"mock error">>, <<Nil, "mock error">>}] :
          /\ \E e \in Endpoints : errs[e] = <<>>
          /\ net = NoNet(errs)

\* dial(ctx, netDialer, network, addr, config) on a connected carrier
Dial ==
    /\ net.dial.ret = ""
    /\ LET res == dial(ConnClientHandshake(cc["client"], net.car["client"], open, now,
                                           IdBytes(1), prf),
                       open)
       IN /\ cc' = [cc EXCEPT !["client"] = res.c]
          /\ pipe' = [pipe EXCEPT !["client"] = @ \o res.h.out]
          /\ open' = res.open
          /\ hist' = [hist EXCEPT !["client"].runs = @ + 1,
                                  !["client"].result = res.h.err]
          /\ net' = [net EXCEPT !.car["client"] = res.h.n, !.hs["client"] = res.h.hs,
                                !.dial = [ret |-> res.ret, err |-> res.err]]
    /\ UNCHANGED <<thr, rd, prf, recVars, hsVars>>

\* the endpoint's user has its connection: the server's comes from Accept,
\* the client's from a dial that returned one
DialHas(e) == e = "server" \/ net.dial.ret = "conn"

\* c.SetWriteDeadline(t), t being time.Now() (v = "passed") or the zero
\* time (v = "none")
ConnSetWriteDeadline(e, v) ==
    /\ DialHas(e)
    /\ thr[e]["a"] = "idle"
    /\ cc[e].conn \/ cc[e].err # Nil
    /\ net' = IF cc[e].err # Nil THEN net
              ELSE [net EXCEPT !.car[e] = SetDeadlineCall(net.car[e], "w", v).n]
    /\ hist' = IF hist[e].closedIn = "" THEN hist
               ELSE [hist EXCEPT ![e].shut.setter =
                        IF cc[e].err # Nil THEN cc[e].err
                        ELSE SetDeadlineCall(net.car[e], "w", v).err]
    /\ UNCHANGED <<cc, thr, pipe, rd, open, prf, recVars, hsVars>>

DialNext ==
    \/ Dial
    \/ ConnCall("server", "a")
    \/ OnceLock("server", "a")
    \/ OnceRunServer("a")
    \/ \E op \in Ops : ConnReturn("server", "a", op)
    \/ \E e \in Endpoints, op \in Ops : DialHas(e) /\ ConnLateCall(e, "a", op)
    \/ \E e \in Endpoints, v \in {"passed", "none"} :
          cc[e].conn /\ ConnSetWriteDeadline(e, v)
    \/ \E e \in Endpoints : DialHas(e) /\ hist[e].shut.n = 0 /\ ConnCloseCall(e, Nil)

SpecDial == DialStart /\ [][DialNext]_vars

(***************************************************************************)
(* A dialed connection whose client configuration or server context may be *)
(* invalid: no pinned server key, a private key that is not 32 bytes long, *)
(* no server private key, a crypto type that is not supported.             *)
(***************************************************************************)
CfgStart ==
    /\ RecQuiet
    /\ now = 0
    /\ made = {}
    /\ fed = <<>>
    /\ hlast = NoHandshake
    /\ srv = NoSrv
    /\ \E k \in ServerKeys \cup {NoKey}, ct \in {CryptoAES256GCM, "rc4"} :
          /\ (k = NoKey => ct = CryptoAES256GCM)
          /\ sctx = [PrivateKey |-> k, Tolerance |-> Tolerance,
                     CryptoType |-> ct, AuthorizedKeys |-> {},
                     idMap |-> <<>>, running |-> TRUE]
    /\ \E config \in {DefaultConfig,
                       [DefaultConfig EXCEPT !.ServerPub = NoPub],
                       [DefaultConfig EXCEPT !.CryptoType = "rc4"],
                       [DefaultConfig EXCEPT !.PrivateKey = Malformed]} :
          cc = [e \in Endpoints |-> NewConn(config)]
    /\ thr = [e \in Endpoints |-> [g \in Goroutines |-> "idle"]]
    /\ pipe = [e \in Endpoints |-> <<>>]
    /\ rd = [e \in Endpoints |-> 0]
    /\ open = TRUE
    /\ prf = [i \in 1..idSizeV1 |-> 0]
    /\ hist = [e \in Endpoints |-> NoHist]
    /\ net = NoNet([e \in Endpoints |-> <<>>])

SpecCfg == CfgStart /\ [][DialNext]_vars

(***************************************************************************)
(* A dialed client over a carrier that hands the client's own records back *)
(* to it: the server writes nothing, and what the client finds inbound are *)
(* the bytes its own writer put on the carrier after the handshake packet, *)
(* unchanged and in order.                                                 *)
(***************************************************************************)
Reflect(e) ==
    /\ hist[e].result = Nil
    /\ Len(pipe[e]) > packetSizeV1 + Len(pipe[Peer(e)])
    /\ pipe' = [pipe EXCEPT ![Peer(e)] = Drop(pipe[e], packetSizeV1)]
    /\ UNCHANGED <<cc, thr, rd, open, prf, hist, net, recVars, hsVars>>

ReflectNext ==
    \/ Dial
    \/ \E op \in Ops : DialHas("client") /\ ConnLateCall("client", "a", op)
    \/ \E v \in {"passed", "none"} :
          cc["client"].conn /\ ConnSetWriteDeadline("client", v)
    \/ DialHas("client") /\ hist["client"].shut.n = 0 /\ ConnCloseCall("client", Nil)
    \/ Reflect("client")

SpecReflect == DialStart /\ [][ReflectNext]_vars

(***************************************************************************)
(* Closing a dialed connection: each side may call Close any number of     *)
(* times, the carrier's Close returning an error or nil, and may call      *)
(* Handshake, Read, Write and SetWriteDeadline before and after.           *)
(***************************************************************************)
CloseNext ==
    \/ Dial
    \/ ConnCall("server", "a")
    \/ OnceLock("server", "a")
    \/ OnceRunServer("a")
    \/ ConnReturn("server", "a", "Handshake")
    \/ \E op \in Ops : DialHas("client") /\ ConnLateCall("client", "a", op)
    \/ \E e \in Endpoints : hist[e].closedIn # "" /\ ConnSetWriteDeadline(e, "none")
    \/ \E e \in Endpoints, cerr \in {Nil, "close error"} :
          DialHas(e) /\ ConnCloseCall(e, cerr)

SpecClose == DialStart /\ [][CloseNext]_vars

(***************************************************************************)
(* Claims about the connection (SpecConn).                                 *)
(***************************************************************************)
Sealed == hist["client"].sealed \cup hist["server"].sealed
Failed(e) == hist[e].result \notin {"none", Nil}

\* C1: within one session, no two records (of the client's or of the
\* server's writer) are sealed under the same session key and nonce.
C1_NoNonceReuse ==
    \A a \in Sealed, b \in Sealed :
        (a.key = b.key /\ a.nonce = b.nonce) => a = b

\* C6: on each endpoint the handshake function is started at most once,
\* whatever calls race for it; a call that has returned from Handshake
\* found the function run once and finished, and got the outcome it
\* recorded (the error of the run; nil after a successful run, until Close).
C6_HandshakeOnce ==
    \A e \in Endpoints :
        /\ hist[e].runs <= 1
        /\ Cardinality({g \in Goroutines : thr[e][g] = "fn"}) <= 1
        /\ cc[e].once.done => \A g \in Goroutines : thr[e][g] # "fn"
        /\ hist[e].last.called =>
              /\ cc[e].once.done
              /\ hist[e].runs = 1
              /\ hist[e].result # "none"
              /\ Failed(e) => hist[e].last.hs = hist[e].result
              /\ (~Failed(e) /\ ~hist[e].last.closed) => hist[e].last.hs = Nil

\* C6 witness: a Read that entered Handshake before the function had
\* finished has returned while the other goroutine, which raced it, is
\* still on its way out; the function ran once.
C6_Witness ==
    \E e \in Endpoints :
        /\ hist[e].last.called
        /\ hist[e].last.op = "Read"
        /\ ~hist[e].last.late
        /\ \E g \in Goroutines : thr[e][g] = "do"
        /\ hist[e].runs = 1

\* C7: once an endpoint's handshake has failed, every call that returns
\* (Handshake, Read or Write) returns the recorded error and moves no byte
\* on the carrier, the record layer is never reached, and the handshake
\* function is not run again.
C7_FailedHandshakeSticky ==
    \A e \in Endpoints :
        Failed(e) =>
            /\ hist[e].runs = 1
            /\ ~hist[e].recIO
            /\ cc[e].err = hist[e].result
            /\ hist[e].last.called =>
                  /\ hist[e].last.err = hist[e].result
                  /\ hist[e].last.io = 0

\* C7 witness: on an open carrier and with no Close, a handshake failed and
\* a Write called afterwards has returned.
C7_Witness ==
    \E e \in Endpoints :
        /\ Failed(e)
        /\ open
        /\ hist[e].closedIn = ""
        /\ hist[e].last.called
        /\ hist[e].last.late
        /\ hist[e].last.op = "Write"
        /\ hist[e].writes = 1

\* C8: an endpoint reaches the record layer only after its handshake has
\* succeeded.  What the client has written is nothing or the 72 handshake
\* bytes followed by record bytes only; the server writes no handshake
\* byte, writes nothing and reads nothing past the 72 bytes unless its
\* handshake succeeded.
C8_HandshakeFirst ==
    /\ \A e \in Endpoints :
          hist[e].recIO => cc[e].once.done /\ hist[e].result = Nil
    /\ \A i \in 1..Len(pipe["client"]) :
          /\ Len(pipe["client"]) >= packetSizeV1
          /\ (pipe["client"][i].t = "p") <=> (i <= packetSizeV1)
    /\ \A i \in 1..Len(pipe["server"]) :
          /\ pipe["server"][i].t # "p"
          /\ hist["server"].result = Nil
    /\ rd["server"] > 0 => rd["server"] >= packetSizeV1 \/ ~open
    /\ rd["server"] > packetSizeV1 => hist["server"].result = Nil
    /\ rd["client"] > 0 => hist["client"].result = Nil

\* C8 witness: the client has written records after its packet and the
\* server, its handshake done, has read one with a Read that was called
\* before the handshake.
C8_Witness ==
    /\ Len(pipe["client"]) > packetSizeV1
    /\ rd["server"] > packetSizeV1
    /\ hist["server"].last.called
    /\ hist["server"].last.op = "Read"
    /\ ~hist["server"].last.late
    /\ hist["server"].last.err = Nil
    /\ hist["server"].last.io > 0

\* C9: a Read or Write called after Close, on a connection that was closed
\* before its handshake or when ready, returns the closed-pipe error and
\* moves no byte on the carrier.
C9_ClosedPipeAfterClose ==
    \A e \in Endpoints :
        ( /\ hist[e].closedIn \in {"pre-handshake", "ready"}
          /\ hist[e].last.called
          /\ hist[e].last.closed
          /\ hist[e].last.op \in {"Read", "Write"} )
        => /\ hist[e].last.err = ErrClosedPipe
           /\ hist[e].last.io = 0

(***************************************************************************)
(* Claims about the handshake (SpecHS).                                    *)
(***************************************************************************)
ServerWindow == TimeWindow(hlast.t2, sctx.Tolerance)
Matching(m) == m.pin = PublicKeyOf(sctx.PrivateKey) /\ m.hi.crypto = sctx.CryptoType

\* C2: on a running server context, a handshake whose id was carried by an
\* earlier handshake that was let past the replay check (a successful one
\* in particular) at most Tolerance seconds before fails with the replay
\* error; and the first of the two, when its packet is validly signed for
\* this server and in the server's time bucket, succeeds.
C2_ReplayWithinTolerance ==
    hlast.called /\ hlast.running =>
        /\ (hlast.prev.t >= 0 /\ hlast.t - hlast.prev.t <= sctx.Tolerance)
              => hlast.err = ErrReplay
        /\ \A m \in made :
              (hlast.pkt = m.pkt /\ Matching(m) /\ m.tw = ServerWindow /\ ~hlast.cached)
                 => hlast.err = Nil

\* C2 witness: a packet that succeeded is fed again, later but within
\* Tolerance seconds, and is refused as a replay.
C2_Witness ==
    /\ hlast.called /\ hlast.running
    /\ hlast.err = ErrReplay
    /\ hlast.prev.t >= 0
    /\ hlast.prev.err = Nil
    /\ hlast.t > hlast.prev.t
    /\ hlast.t - hlast.prev.t <= sctx.Tolerance
    /\ \E m \in made : hlast.pkt = m.pkt

C30_ReplayCheckFirst ==
    hlast.called /\ hlast.running =>
        /\ hlast.cached =>
              (hlast.err = ErrReplay /\ hlast.key = NoTerm /\ hlast.hi = NoInfo)
        /\ ~hlast.cached => (hlast.err # ErrReplay /\ hlast.kept)
        /\ ( /\ hlast.prev.t >= 0
             /\ hlast.prev.err \in {ErrSign, ErrECDH}
             /\ hlast.t - hlast.prev.t <= sctx.Tolerance )
              => (hlast.err = ErrReplay /\ hlast.key = NoTerm)

\* C30 witness: a packet validly signed for this server, in the server's
\* time bucket, is refused as a replay because a packet with its id and a
\* bad signature had been fed before.
C30_Witness ==
    /\ hlast.called /\ hlast.running
    /\ hlast.err = ErrReplay
    /\ hlast.prev.t >= 0
    /\ hlast.prev.err = ErrSign
    /\ \E m \in made : hlast.pkt = m.pkt /\ Matching(m) /\ m.tw = ServerWindow

\* C3: when the client pinned this server's public key, both sides use the
\* same crypto type and the server computes the time bucket the client
\* used, serverHandshake on the client's packet (unless refused as a replay)
\* succeeds and returns the client's session key and base nonce, of the
\* crypto type's nonce size.
C3_SameKeyAndNonce ==
    hlast.called =>
        \A m \in made :
            (hlast.pkt = m.pkt /\ Matching(m) /\ m.tw = ServerWindow /\ hlast.err # ErrReplay)
               => /\ hlast.err = Nil
                  /\ hlast.hi.key = m.hi.key
                  /\ hlast.hi.nonce = m.hi.nonce
                  /\ hlast.hi.key.len = keySizeV1
                  /\ hlast.hi.nonce.len = cryptoFromName(sctx.CryptoType).nonceSize

\* C3 witness: a successful server handshake on a client's packet under
\* xchacha20-poly1305, in a time bucket other than the first.
C3_Witness ==
    /\ hlast.called
    /\ hlast.err = Nil
    /\ sctx.CryptoType = CryptoXChacha20Poly1305
    /\ ServerWindow > 0
    /\ \E m \in made : hlast.pkt = m.pkt /\ hlast.hi = m.hi

\* C4: serverHandshake accepts a client's packet only in the time bucket
\* the client built it in; in any other bucket (a replay aside) the key
\* the server derives differs from the client's and the handshake fails
\* with the sign error.
C4_BucketMustMatch ==
    hlast.called =>
        \A m \in made :
            hlast.pkt = m.pkt =>
               /\ hlast.err = Nil => m.tw = ServerWindow
               /\ (m.tw # ServerWindow /\ hlast.err # ErrReplay)
                     => hlast.err = ErrSign /\ hlast.key # m.hi.key

\* C4 witness: a packet for this server, refused with the sign error in the
\* bucket after the one it was built in, less than Tolerance seconds after
\* it was built.
C4_Witness ==
    /\ hlast.called
    /\ hlast.err = ErrSign
    /\ \E m \in made :
          /\ hlast.pkt = m.pkt
          /\ Matching(m)
          /\ ServerWindow = m.tw + 1
          /\ hlast.t2 - m.at < sctx.Tolerance

\* C14: replay-cache freshness.  In every state of a server context, every
\* id in the replay cache was inserted at most Tolerance seconds ago.
C14_CacheFresh ==
    \A id \in DOMAIN sctx.idMap : now - sctx.idMap[id] <= sctx.Tolerance

\* C15: after ServerContext.Close, CheckReplay reports every id as already
\* seen and inserts nothing: every serverHandshake on that context is
\* refused (as a replay) and establishes no session, and an id that was not
\* in the cache is not in it afterwards.
C15_ClosedContextRefuses ==
    (hlast.called /\ ~hlast.running) =>
        /\ hlast.err = ErrReplay
        /\ hlast.hi = NoInfo
        /\ ~hlast.cached => hlast.pkt.id \notin DOMAIN sctx.idMap

\* C15 witness: a packet validly signed for this server, in the server's
\* time bucket and never seen before, is refused by the closed context.
C15_Witness ==
    /\ hlast.called
    /\ ~hlast.running
    /\ ~hlast.cached
    /\ hlast.err = ErrReplay
    /\ \E m \in made : hlast.pkt = m.pkt /\ Matching(m) /\ m.tw = ServerWindow

\* C17: when the server's authorized-key set is not empty and the public
\* key in the client's packet is not in it, serverHandshake fails and
\* establishes no session.
C17_UnauthorizedRefused ==
    (/\ hlast.called
     /\ sctx.AuthorizedKeys # {}
     /\ hlast.pkt.epub \notin sctx.AuthorizedKeys) =>
        (hlast.err # Nil /\ hlast.hi = NoInfo)

(***************************************************************************)
(* Claims about the shared server context (SpecCtx).                       *)
(***************************************************************************)

\* C16: CheckReplay's lookup and insert are one atomic step.  Of the calls
\* on an id made since the id was last absent from the cache, exactly one
\* has returned false (the one that inserted it) once the id is in the
\* cache, and none before; every other call returns true.  This holds for
\* every interleaving of the calls with each other and with the sweeper.
C16_CheckInsertAtomic ==
    /\ \A id \in DOMAIN srv.won :
          srv.won[id] = IF id \in DOMAIN sctx.idMap THEN 1 ELSE 0
    /\ \A g \in Callers :
          (srv.call[g].pc = "done" /\ ~srv.call[g].ret)
             => srv.won[srv.call[g].id] <= 1

\* C16 witness: two calls with the same id, in flight together while the id
\* was absent, have both returned, one false and the other true.
C16_Witness ==
    \E g \in Callers, h \in Callers :
        /\ g # h
        /\ srv.call[g].id = srv.call[h].id
        /\ srv.call[g].conc /\ srv.call[h].conc
        /\ srv.call[g].pc = "done" /\ srv.call[h].pc = "done"
        /\ ~srv.call[g].ret
        /\ srv.call[h].ret
        /\ sctx.running

\* C33: ServerContext.Close terminates and is idempotent.  closeCh is
\* closed at most once; a Close call that has returned finds the sweeper
\* stopped; once the sweeper has stopped it stays stopped and no entry
\* leaves the cache; and every Close call that waits (for the sweeper, or
\* for closeOnce while another call runs) returns in the end, whatever the
\* sweeper was doing when Close was called.
C33_ContextCloseTerminates ==
    /\ [](srv.signals <= 1)
    /\ [](\A g \in Closers : srv.closer[g] = "returned" => srv.gc = "stopped")
    /\ [][srv.gc = "stopped" =>
            (srv'.gc = "stopped" /\ DOMAIN sctx.idMap \subseteq DOMAIN sctx'.idMap)]_vars
    /\ \A g \in Closers :
          (srv.closer[g] \in {"waiting", "blocked"}) ~> (srv.closer[g] = "returned")

\* C33 witness: Close was called while the sweeper held idMutex during an
\* eviction, a second call came while the first one waited, and both have
\* returned; closeCh was closed once.
C33_Witness ==
    /\ srv.closedAt = "sweep"
    /\ \A g \in Closers : srv.closer[g] = "returned"
    /\ srv.signals = 1
    /\ srv.gc = "stopped"

\* C18: once listener.Close has returned, whatever the carrier listener's
\* own Close returned, the shared server context is closed: it is not
\* running (CheckReplay refuses) and the sweeper has stopped.
C18_ListenerCloseClosesContext ==
    srv.lis \in {"closed", "failed"} => (~sctx.running /\ srv.gc = "stopped")

\* C27: the carrier-level counters of Conn.Stat() account for every byte
\* the connection moved on the carrier, the 72 handshake bytes included.
\* Once a ready client has written a message and the server has read it,
\* the client's outW is everything the client wrote to the carrier, at
\* least 72 bytes and a record (header, at least one byte, tag), and the
\* server's outR is everything the server read from it.
C27_StatCountsHandshake ==
    /\ ( /\ hist["client"].result = Nil
         /\ hist["client"].closedIn = ""
         /\ hist["client"].writes >= 1
         /\ hist["client"].wfail = Nil )
          => /\ ConnStat(cc["client"]).outW = Len(pipe["client"])
             /\ ConnStat(cc["client"]).outW
                   >= packetSizeV1 + gcmHeaderSize + 1 + gcmTagSize
    /\ ( /\ hist["server"].result = Nil
         /\ hist["server"].closedIn = ""
         /\ rd["server"] > packetSizeV1 )
          => /\ ConnStat(cc["server"]).outR = rd["server"]
             /\ ConnStat(cc["server"]).outR
                   >= packetSizeV1 + gcmHeaderSize + 1 + gcmTagSize

(***************************************************************************)
(* Claims about a dialed connection (SpecDial).                            *)
(***************************************************************************)

\* C12: after a Write on a ready connection has failed with a carrier error
\* (a passed write deadline), every later Write on that connection fails
\* with an error too, also when the deadline was cleared meanwhile and the
\* carrier would take data again.
C12_WriteFailureTerminal ==
    \A e \in Endpoints :
        (hist[e].last.called /\ hist[e].last.op = "Write" /\ hist[e].last.wfail # Nil)
            => hist[e].last.err # Nil

\* C12 witness: a Write timed out; the write deadline was then cleared on
\* the open carrier, and the Write that followed failed.
C12_Witness ==
    \E e \in Endpoints :
        /\ hist[e].last.called
        /\ hist[e].last.op = "Write"
        /\ hist[e].last.wfail = "i/o timeout"
        /\ hist[e].last.err # Nil
        /\ hist[e].result = Nil
        /\ net.car[e].w = "none"
        /\ open
        /\ cc[e].conn

\* C19: when the dialer, having connected the carrier, returns no
\* connection, the client handshake failed, its error is what the dialer
\* returned and the carrier is closed; when it returns a connection, that
\* connection's handshake function has run exactly once and succeeded.
C19_DialResult ==
    /\ hist["client"].result \notin {"none", Nil} => net.dial.ret = "nil"
    /\ net.dial.ret = "nil" =>
          /\ hist["client"].result \notin {"none", Nil}
          /\ net.dial.err = hist["client"].result
          /\ ~open
    /\ net.dial.ret = "conn" =>
          /\ hist["client"].runs = 1
          /\ hist["client"].result = Nil
          /\ cc["client"].once.done
          /\ net.dial.err = Nil

\* C19 witness: the handshake failed after its packet had gone out (the
\* call that clears the deadline returned an error): the dialer returned
\* that error and no connection, and the carrier is closed.
C19_Witness ==
    /\ net.dial.ret = "nil"
    /\ net.dial.err = "mock error"
    /\ pipe["client"] # <<>>
    /\ ~open

\* C20: the handshake's deadline on the carrier.  Once an endpoint's
\* handshake function has run: if its handshake I/O went through in full
\* (the client wrote its packet, the server read it), the write deadline
\* (client) or read deadline (server) was now+HandshakeTimeout while it did,
\* and the call that resets the deadline to none was made after it; and an
\* error returned by a deadline call is the handshake's error, with no
\* record layer installed.
C20_HandshakeDeadline ==
    \A e \in Endpoints :
        hist[e].result # "none" =>
            /\ net.hs[e].io = "full" =>
                  (net.hs[e].during = "now+HandshakeTimeout" /\ net.hs[e].cleared)
            /\ net.hs[e].dlerr # Nil =>
                  (hist[e].result = net.hs[e].dlerr /\ ~cc[e].snappy)

\* C28: the handshake is one-way.  Once the client's handshake function has
\* run, and before the client's record layer moved anything, the client has
\* written the 72-byte packet or nothing and has read nothing; its handshake
\* succeeded exactly if the packet went out and the deadline calls returned
\* no error, whatever the server did.  Once the server's handshake function
\* has run, and before the server's record layer moved anything, the server
\* has read the 72 bytes of the packet or nothing (also when the carrier
\* holds more) and has written nothing.
C28_OneWayHandshake ==
    /\ hist["client"].result # "none" =>
          /\ ~hist["client"].recIO =>
                /\ rd["client"] = 0
                /\ Len(pipe["client"])
                      = IF net.hs["client"].io = "full" THEN packetSizeV1 ELSE 0
          /\ hist["client"].result = Nil
                <=> (net.hs["client"].io = "full" /\ net.hs["client"].dlerr = Nil)
          /\ hist["client"].result = Nil => Len(pipe["client"]) >= packetSizeV1
    /\ (hist["server"].result # "none" /\ ~hist["server"].recIO) =>
          /\ pipe["server"] = <<>>
          /\ rd["server"] = IF net.hs["server"].io = "full" THEN packetSizeV1 ELSE 0
          /\ hist["server"].result = Nil => net.hs["server"].io = "full"

\* C28 witness: the dialer returned a connection, and the client has gone
\* on to write a record, while the server read the 72 bytes of the packet,
\* left the record on the carrier and refused the packet.
C28_Witness ==
    /\ net.dial.ret = "conn"
    /\ hist["client"].result = Nil
    /\ hist["client"].writes >= 1
    /\ hist["server"].result \notin {"none", Nil}
    /\ net.hs["server"].io = "full"
    /\ rd["server"] = packetSizeV1
    /\ Len(pipe["client"]) > packetSizeV1
    /\ pipe["server"] = <<>>
    /\ rd["client"] = 0

\* C34: an invalid configuration is found before any handshake I/O or
\* state change.  A client whose configuration has no server public key, an
\* unsupported crypto type or a malformed private key gets an error and no
\* session from its handshake, and has written nothing to the carrier.  A
\* server whose context has no private key or an unsupported crypto type
\* gets an error and no session, has read nothing from the carrier (also
\* when a packet waits there) and its replay cache is as it was.
C34_InvalidConfigNoIO ==
    /\ ( /\ hist["client"].result # "none"
         /\ \/ cc["client"].cfg.ServerPub = NoPub
            \/ cryptoFromName(cc["client"].cfg.CryptoType).err # Nil
            \/ cc["client"].cfg.PrivateKey = Malformed ) =>
          /\ hist["client"].result
                = (IF cc["client"].cfg.ServerPub = NoPub THEN ErrServerPubNil
                   ELSE IF cc["client"].cfg.PrivateKey = Malformed
                   THEN ErrNewPrivateKey ELSE ErrCryptoType)
          /\ pipe["client"] = <<>>
          /\ ~cc["client"].snappy
          /\ net.dial.ret = "nil"
    /\ ( /\ hist["server"].result # "none"
         /\ hist["server"].closedIn # "pre-handshake"
         /\ \/ sctx.PrivateKey = NoKey
            \/ cryptoFromName(sctx.CryptoType).err # Nil ) =>
          /\ hist["server"].result
                = (IF sctx.PrivateKey = NoKey THEN ErrPrivateKeyNil ELSE ErrCryptoType)
          /\ rd["server"] = 0
          /\ sctx.idMap = <<>>
          /\ ~cc["server"].snappy

\* C34 witness: a server without a private key ran its handshake while the
\* packet of a dialed client waited on the carrier, and left it there.
C34_Witness ==
    /\ sctx.PrivateKey = NoKey
    /\ hist["server"].result = ErrPrivateKeyNil
    /\ net.dial.ret = "conn"
    /\ Len(pipe["client"]) >= packetSizeV1
    /\ rd["server"] = 0

\* C35: no reflection.  A Read of the client that took from the carrier
\* records its own writer had emitted, handed back unchanged at the same
\* record index, returned the cipher error.
C35_NoReflection ==
    ( /\ hist["client"].last.called
      /\ hist["client"].last.op = "Read"
      /\ hist["client"].last.hs = Nil
      /\ hist["client"].last.io > 0
      /\ pipe["server"] # <<>>
      /\ pipe["server"] = Take(Drop(pipe["client"], packetSizeV1), Len(pipe["server"])) )
        => hist["client"].last.err = ErrCipher

(***************************************************************************)
(* Claims about closing a connection (SpecClose).                          *)
(***************************************************************************)

\* C21: Conn.Close is idempotent.  Once Close has been called on a
\* connection, however often: the carrier's Close was called exactly once;
\* the reader's and the writer's scratch buffer, if the handshake had
\* installed them, were each released exactly once (and nothing was
\* released otherwise); the first call returned what the carrier's Close
\* returned; and the connection is failed: c.err is set, a Handshake, Read
\* or Write made afterwards returned an error, and so did a deadline setter.
C21_CloseIdempotent ==
    \A e \in Endpoints :
        hist[e].shut.n >= 1 =>
            /\ hist[e].shut.carrier = 1
            /\ hist[e].shut.freedR = (IF cc[e].snappy THEN 1 ELSE 0)
            /\ hist[e].shut.freedW = (IF cc[e].snappy THEN 1 ELSE 0)
            /\ hist[e].shut.first = hist[e].shut.cerr
            /\ cc[e].err # Nil
            /\ (hist[e].last.called /\ hist[e].last.closed) => hist[e].last.err # Nil
            /\ hist[e].shut.setter # Nil

\* C21 witness: a ready connection was closed at least twice, the carrier's
\* Close having returned an error to the first call; a Write and a
\* SetWriteDeadline were called afterwards.
C21_Witness ==
    /\ hist["client"].shut.n = 2
    /\ hist["client"].shut.first = "close error"
    /\ hist["client"].closedIn = "ready"
    /\ hist["client"].shut.freedR = 1
    /\ hist["client"].shut.freedW = 1
    /\ hist["client"].shut.setter = ErrClosedPipe
    /\ hist["client"].last.called
    /\ hist["client"].last.closed
    /\ hist["client"].last.op = "Write"

(***************************************************************************)
(* Claims about the record layer (SpecRec, SpecShort).                     *)
(***************************************************************************)

\* C22: partial carrier I/O is unobservable.  Over a carrier that takes at
\* most k >= 1 bytes per Write, a SecureWriter.Write puts the same bytes on
\* the wire, returns the same count and error and leaves the writer in the
\* same state as over a carrier that takes everything at once; over a
\* carrier that returns at most k >= 1 bytes per Read, a SecureReader.Read
\* delivers the same bytes and the same error, takes the same bytes from
\* the carrier and leaves the reader in the same state.
C22_PartialIOUnobservable ==
    /\ wlast.same
    /\ rlast.same

\* C22 witness: a Write whose records went out in pieces (more bytes than
\* the carrier takes in one call), and a Read that got a whole record in
\* pieces and delivered the bytes written.
C22_Witness ==
    /\ wlast.called
    /\ wlast.err = Nil
    /\ wlast.wrote > 2 * ShortIO
    /\ rlast.called
    /\ rlast.err = Nil
    /\ rlast.took > 2 * ShortIO
    /\ Len(rlast.got) >= 1
    /\ recv = Take(sent, Len(recv))

\* the whole records at the head of a run of bytes a writer put on the
\* wire: for each, the length field, the plaintext and the nonce its tag
\* was made for
RECURSIVE WireRecords(_)
WireRecords(bytes) ==
    IF Len(bytes) < gcmHeaderSize + gcmTagSize + 1 THEN <<>>
    ELSE LET raw == Uint16(Take(bytes, gcmHeaderSize))
             tag == bytes[gcmHeaderSize + raw - gcmTagSize + 1]
         IN IF Len(bytes) < gcmHeaderSize + raw THEN <<>>
            ELSE << [raw |-> raw, pt |-> tag.p.pt, nonce |-> tag.p.n] >>
                     \o WireRecords(Drop(bytes, gcmHeaderSize + raw))

\* what the last Write put on the wire
LastWritten == Drop(wire, Len(wire) - wlast.wrote)

\* C31: truncated input.  A Read that goes for a new record on a carrier
\* that has ended returns EOF if the carrier held nothing, and the
\* unexpected-EOF error if it held one header byte, or a header with a valid
\* length L and fewer than L bytes after it; in each case it delivers no
\* plaintext and leaves the nonce counter alone.
C31_TruncatedInput ==
    (rlast.called /\ rlast.left <= 0 /\ rlast.err # ErrClosedPipe) =>
        /\ (rlast.hdr = -1 /\ rlast.took = 0) =>
              (rlast.err = EOF /\ rlast.got = <<>> /\ ~rlast.adv)
        /\ (rlast.hdr = -1 /\ rlast.took = 1) =>
              (rlast.err = ErrUnexpectedEOF /\ rlast.got = <<>> /\ ~rlast.adv)
        /\ ( /\ rlast.hdr > gcmTagSize
             /\ rlast.hdr <= gcmPacketCache - gcmHeaderSize
             /\ rlast.took < gcmHeaderSize + rlast.hdr ) =>
              (rlast.err = ErrUnexpectedEOF /\ rlast.got = <<>> /\ ~rlast.adv)

\* the length fields of the records in a run of bytes, read as a reader
\* reads them; -1 stands for bytes at the end that are no whole record
RECURSIVE RecordLengths(_)
RecordLengths(bytes) ==
    IF Len(bytes) = 0 THEN <<>>
    ELSE IF Len(bytes) < gcmHeaderSize THEN << -1 >>
    ELSE IF Len(bytes) < gcmHeaderSize + Uint16(Take(bytes, gcmHeaderSize)) THEN << -1 >>
    ELSE << Uint16(Take(bytes, gcmHeaderSize)) >>
           \o RecordLengths(Drop(bytes, gcmHeaderSize + Uint16(Take(bytes, gcmHeaderSize))))

\* C37: what a SecureWriter has put on a carrier that takes everything is a
\* run of whole records whose length fields L lie between gcmTagSize + 1
\* and gcmPacketSize + gcmTagSize (17 and 4112 in the code); a Write of an
\* empty buffer and a Close put nothing there, so L = 0 never appears; and
\* a Read fed this output never returns message-too-short or
\* message-too-long, and returns EOF only when it found the carrier ended
\* with no header byte left.
C37_LengthFieldValid ==
    /\ \A i \in 1..Len(RecordLengths(wire)) :
          /\ RecordLengths(wire)[i] >= gcmTagSize + 1
          /\ RecordLengths(wire)[i] <= gcmPacketSize + gcmTagSize
    /\ (wlast.called /\ Len(wlast.b) = 0) => wlast.wrote = 0
    /\ rlast.called =>
          /\ rlast.err \notin {ErrTooShort, ErrTooLong}
          /\ rlast.err = EOF => (rlast.hdr = -1 /\ rlast.took = 0)

\* C37 witness: the writer wrote a record of one byte and a full one, was
\* closed, and the carrier was shut; the reader has taken all of it and its
\* last Read found the end of the carrier.
C37_Witness ==
    /\ wstat.shut["w"].n >= 1
    /\ ended
    /\ \E i, j \in 1..Len(RecordLengths(wire)) :
          /\ RecordLengths(wire)[i] = gcmTagSize + 1
          /\ RecordLengths(wire)[j] = gcmPacketSize + gcmTagSize
    /\ rpos = Len(wire)
    /\ rlast.called /\ rlast.err = EOF

\* C32: Close of a SecureWriter or SecureReader is idempotent.  However
\* often Close was called, the scratch buffer went back to the pool exactly
\* once and the field is cleared; and a Write or Read made after a Close
\* returned io.ErrClosedPipe with no byte written, taken from the carrier
\* or delivered, and with the nonce counter as it was.
C32_RecordCloseIdempotent ==
    /\ \A x \in {"r", "w"} : wstat.shut[x].n >= 1 => wstat.shut[x].freed = 1
    /\ wstat.shut["w"].n >= 1 => (~sw.buf /\ ~sw.inner /\ sw.err # Nil)
    /\ wstat.shut["r"].n >= 1 => (~sr.buf /\ ~sr.inner /\ sr.err # Nil)
    /\ (wlast.called /\ wlast.closed) =>
          /\ wlast.err = ErrClosedPipe
          /\ wlast.n = 0
          /\ wlast.wrote = 0
          /\ ~wlast.adv
    /\ (rlast.called /\ rlast.closed) =>
          /\ rlast.err = ErrClosedPipe
          /\ rlast.got = <<>>
          /\ rlast.took = 0
          /\ ~rlast.adv

\* C32 witness: the writer and the reader were each closed more than once,
\* the reader while it held plaintext not yet delivered and a record was
\* waiting on the carrier; then a Write of some bytes and a Read into a
\* buffer with room were made.
C32_Witness ==
    /\ wstat.shut["w"].n = 2
    /\ wstat.shut["r"].n = 2
    /\ wlast.called /\ wlast.closed /\ Len(wlast.b) > 0
    /\ rlast.called /\ rlast.closed /\ rlast.m > 0 /\ rlast.left > 0
    /\ rpos < Len(wire)

\* C23: a SecureWriter.Write of n bytes that the carrier took in full
\* returns n and emits exactly ceil(n / gcmPacketSize) records: the j-th
\* carries the j-th run of gcmPacketSize bytes of the buffer (the last one
\* what is left, at least one byte), so that every record but the last
\* carries exactly gcmPacketSize bytes; the carrier gets
\* n + (gcmHeaderSize + gcmTagSize) * ceil(n / gcmPacketSize) bytes, 18 per
\* record over the plaintext.  n = 0 emits nothing and returns 0.
C23_RecordSplit ==
    (wlast.called /\ wlast.err = Nil) =>
        LET n == Len(wlast.b)
            cnt == (n + gcmPacketSize - 1) \div gcmPacketSize
            recs == WireRecords(LastWritten)
        IN /\ wlast.n = n
           /\ gcmHeaderSize + gcmTagSize = 18
           /\ wlast.wrote = n + 18 * cnt
           /\ Len(recs) = cnt
           /\ \A j \in 1..cnt :
                 /\ recs[j].pt = SubSeq(wlast.b, (j - 1) * gcmPacketSize + 1,
                                        Min(j * gcmPacketSize, n))
                 /\ recs[j].raw = Len(recs[j].pt) + gcmTagSize
                 /\ Len(recs[j].pt) >= 1
                 /\ j < cnt => Len(recs[j].pt) = gcmPacketSize

\* C23 witness: a Write of more than gcmPacketSize bytes went out as two
\* records, a full one and a shorter one.
C23_Witness ==
    /\ wlast.called
    /\ wlast.err = Nil
    /\ Len(wlast.b) > gcmPacketSize
    /\ Len(wlast.b) < 2 * gcmPacketSize
    /\ wlast.n = Len(wlast.b)
    /\ Len(WireRecords(LastWritten)) = 2
    /\ Len(WireRecords(LastWritten)[2].pt) = Len(wlast.b) - gcmPacketSize

\* (LE64(seed[0..8]) + k) mod 2^64 as 8 little-endian bytes, for the seeds of
\* the model, 0 and 2^64 - 2, the latter counted as -2
Counter64(seed, k) ==
    LET x == (IF seed[idSizeV1] = 255 THEN seed[1] - 256 ELSE seed[1]) + k
    IN IF x >= 0 THEN PutUint64(x, idSizeV1)
       ELSE [i \in 1..idSizeV1 |-> IF i = 1 THEN 256 + x ELSE 255]

\* C25: the nonce schedule.  While the carrier has not failed, the k-th
\* record the writer put on the wire (k >= 1) was sealed under the nonce
\* whose first 8 bytes are the little-endian (LE64(N[0..8]) + k) mod 2^64 and
\* whose other bytes are N[8..nonceSize], N being the initial nonce; the
\* writer's counter stands at the value of its last record and the reader's
\* at the value of the last record it took from the carrier; its suffix
\* is N's too; and the reader, which opens the k-th record under its own
\* k-th nonce, reports no cipher error, wrap-around included.
C25_NonceSchedule ==
    wstat.failed = Nil =>
        LET recs == WireRecords(wire)
            taken == WireRecords(Take(wire, rpos))
        IN /\ \A k \in 1..Len(recs) :
                 /\ Take(recs[k].nonce, idSizeV1) = Counter64(wstat.seed, k)
                 /\ Drop(recs[k].nonce, idSizeV1) = Drop(wstat.seed, idSizeV1)
                 /\ Len(recs[k].nonce) = gcmNonceSize
           /\ sw.nonceId = Counter64(wstat.seed, Len(recs))
           /\ sr.nonceId = Counter64(wstat.seed, Len(taken))
           /\ Take(sw.nonceBase, gcmNonceSize - idSizeV1) = Drop(wstat.seed, idSizeV1)
           /\ Take(sr.nonceBase, gcmNonceSize - idSizeV1) = Drop(wstat.seed, idSizeV1)
           /\ rlast.err \in {Nil, EOF}
           /\ wlast.err = Nil

\* C25 witness: from the initial counter 2^64 - 2 three records were
\* written and read back, the counter having wrapped on the way.
C25_Witness ==
    /\ Take(wstat.seed, idSizeV1) = [i \in 1..idSizeV1 |-> IF i = 1 THEN 254 ELSE 255]
    /\ wstat.failed = Nil
    /\ Len(WireRecords(wire)) >= 3
    /\ rpos = Len(wire)
    /\ sr.readn = 0
    /\ recv = sent
    /\ rlast.err = Nil
    /\ sr.nonceId = PutUint64(1, idSizeV1)

\* C26, as the specification states it: for a writer whose initial counter
\* is 2^64 - 2, the first three nonces have the counter prefixes 2^64 - 2
\* (FF...FE), 2^64 - 1 (FF...FF) and 0 (00...00), in that order.
C26_WrapFromInitial ==
    ( /\ Take(wstat.seed, idSizeV1) = [i \in 1..idSizeV1 |-> IF i = 1 THEN 254 ELSE 255]
      /\ wstat.failed = Nil
      /\ Len(WireRecords(wire)) >= 3 ) =>
        /\ Take(WireRecords(wire)[1].nonce, idSizeV1)
               = [i \in 1..idSizeV1 |-> IF i = 1 THEN 254 ELSE 255]
        /\ Take(WireRecords(wire)[2].nonce, idSizeV1) = [i \in 1..idSizeV1 |-> 255]
        /\ Take(WireRecords(wire)[3].nonce, idSizeV1) = [i \in 1..idSizeV1 |-> 0]

\* C26, amended: for a writer whose initial counter is 2^64 - 2, the first
\* three nonces have the counter prefixes 2^64 - 1 (FF...FF), 0 (00...00)
\* and 1 (01 00...00 in little-endian bytes), in that order: the counter
\* is incremented before each record.
C26_WrapAfterIncrement ==
    ( /\ Take(wstat.seed, idSizeV1) = [i \in 1..idSizeV1 |-> IF i = 1 THEN 254 ELSE 255]
      /\ wstat.failed = Nil ) =>
        LET recs == WireRecords(wire)
        IN /\ Len(recs) >= 1 => Take(recs[1].nonce, idSizeV1) = [i \in 1..idSizeV1 |-> 255]
           /\ Len(recs) >= 2 => Take(recs[2].nonce, idSizeV1) = [i \in 1..idSizeV1 |-> 0]
           /\ Len(recs) >= 3 =>
                 Take(recs[3].nonce, idSizeV1) = [i \in 1..idSizeV1 |-> IF i = 1 THEN 1 ELSE 0]

\* C26 witness: that writer has produced three records.
C26_Witness ==
    /\ Take(wstat.seed, idSizeV1) = [i \in 1..idSizeV1 |-> IF i = 1 THEN 254 ELSE 255]
    /\ wstat.failed = Nil
    /\ Len(WireRecords(wire)) = 3
    /\ sw.nonceId = [i \in 1..idSizeV1 |-> IF i = 1 THEN 1 ELSE 0]

\* C29: reading from the leftover.  A SecureReader.Read that finds
\* leftover plaintext of the previous record copies min(len(dst), leftover)
\* bytes of it and returns nil, taking nothing from the carrier and leaving
\* the nonce counter alone; a Read takes bytes from the carrier or moves
\* the counter only when it found no leftover; and the bytes one Read
\* returns are consecutive bytes of one record's plaintext (the last record
\* taken from the carrier), what is left of that record being the new
\* leftover.
C29_LeftoverFirst ==
    (rlast.called /\ wstat.failed = Nil) =>
        /\ rlast.left > 0 =>
              /\ Len(rlast.got) = Min(rlast.m, rlast.left)
              /\ rlast.err = Nil
              /\ rlast.took = 0
              /\ ~rlast.adv
        /\ (rlast.took > 0 \/ rlast.adv) => rlast.left = 0
        /\ Len(rlast.got) > 0 =>
              LET taken == WireRecords(Take(wire, rpos))
                  pt == taken[Len(taken)].pt
                  from == Len(pt) - sr.readn - Len(rlast.got)
              IN /\ from >= 0
                 /\ rlast.got = SubSeq(pt, from + 1, from + Len(rlast.got))
                 /\ Take(sr.rbuf, sr.readn) = Drop(pt, from + Len(rlast.got))

\* C29 witness: a record of two bytes was read by two Reads into a buffer
\* of one byte: the second one found one byte left over and returned it,
\* although the carrier held another record.
C29_Witness ==
    /\ rlast.called
    /\ rlast.left = 1
    /\ rlast.m >= 1
    /\ Len(rlast.got) = 1
    /\ rlast.took = 0
    /\ rpos < Len(wire)
    /\ wstat.failed = Nil

RECURSIVE PlainLen(_)
PlainLen(recs) == IF recs = <<>> THEN 0 ELSE Len(Head(recs).pt) + PlainLen(Tail(recs))

\* C24: when the carrier fails during a SecureWriter.Write, the call
\* returns the carrier's error as it is, and a count that is the plaintext
\* length of the records of this call that went out whole before the
\* failure: 0 if the first record failed, and never the plaintext of the
\* record that failed.
C24_FailedWriteCount ==
    (wlast.called /\ wlast.err # Nil) =>
        LET recs == WireRecords(LastWritten)
        IN /\ wlast.err = wcar.cause
           /\ wlast.n = PlainLen(recs)
           /\ wlast.n < Len(wlast.b)
           /\ wlast.wrote - (wlast.n + 18 * Len(recs)) < gcmPacketCache
           /\ \A j \in 1..Len(recs) :
                 recs[j].pt = SubSeq(wlast.b, (j - 1) * gcmPacketSize + 1,
                                     j * gcmPacketSize)

\* C24 witness: the carrier failed in the second record of a Write; the
\* call returned the error and the length of the first record's plaintext.
C24_Witness ==
    /\ wlast.called
    /\ wlast.err = "i/o timeout"
    /\ wlast.n = gcmPacketSize
    /\ Len(wlast.b) > gcmPacketSize
    /\ wlast.wrote > gcmPacketCache

\* C5: record-layer round trip.  As long as no Write has failed on the
\* carrier, what Read has delivered is a prefix of the bytes written, in
\* order; once the reader has drained the carrier it has delivered all of
\* them; Read reports no error but EOF, and EOF only at the end of the
\* stream after everything was delivered; a Read into a non-empty buffer
\* delivers at least one byte.  This holds for every split of the bytes over
\* Write calls, every sequence of buffer sizes and short carrier I/O.
C5_RoundTrip ==
    wstat.failed = Nil =>
        /\ Len(recv) <= Len(sent)
        /\ recv = Take(sent, Len(recv))
        /\ (rpos = Len(wire) /\ sr.readn = 0) => recv = sent
        /\ rlast.err \in {Nil, EOF}
        /\ rlast.err = EOF => (ended /\ recv = sent)
        /\ (rlast.called /\ rlast.err = Nil /\ rlast.m > 0) => Len(rlast.got) >= 1

\* C5 witness: all the bytes, written in at least two Write calls of which
\* the last spanned more than one record,
\* read back whole in at least two Read calls.
C5_Witness ==
    /\ wstat.failed = Nil
    /\ Len(sent) = MaxTotal
    /\ recv = sent
    /\ wlast.n > gcmPacketSize
    /\ Len(sent) > wlast.n
    /\ rlast.got # <<>>
    /\ Len(recv) > Len(rlast.got)

\* C10: once a Write has failed with a carrier error, every later Write on
\* the (unclosed) writer returns that stored error, leaves the nonce counter
\* alone and writes nothing to the carrier.
C10_StickyWriteError ==
    (wlast.called /\ wlast.stored # Nil /\ sw.inner) =>
        /\ wlast.err = wlast.stored
        /\ ~wlast.adv
        /\ wlast.wrote = 0

(***************************************************************************)
(* Claims about the reader over a hostile carrier (SpecWire).              *)
(***************************************************************************)

\* C11: once a Read has returned the cipher error (a record's tag failed
\* verification), every later Read on that reader returns an error and takes
\* no further byte from the carrier.
C11_CipherErrorPoisons ==
    rlast.poisoned => (rlast.err # Nil /\ rlast.took = 0)

\* C13: the reader's length-field policy.  Whenever Read goes for a record
\* and finds a header with length field L: L = 0 gives EOF; 1 <= L <= 16
\* gives the message-too-short error; L above the largest record body
\* (payload and tag) gives the message-too-long error; in these three cases
\* nothing but the header is taken from the carrier.  Any other L is
\* accepted: Read goes on to the body, and when it returns no error it has
\* taken the L body bytes and the record has yielded L - 16 plaintext bytes
\* (1 byte for L = 17).
C13_LengthPolicy ==
    rlast.hdr >= 0 =>
        /\ rlast.hdr = 0 => (rlast.err = EOF /\ rlast.took = gcmHeaderSize)
        /\ (1 <= rlast.hdr /\ rlast.hdr <= gcmTagSize) =>
              (rlast.err = ErrTooShort /\ rlast.took = gcmHeaderSize)
        /\ rlast.hdr > gcmPacketSize + gcmTagSize =>
              (rlast.err = ErrTooLong /\ rlast.took = gcmHeaderSize)
        /\ (gcmTagSize < rlast.hdr /\ rlast.hdr <= gcmPacketSize + gcmTagSize) =>
              /\ rlast.err \notin {ErrTooShort, ErrTooLong}
              /\ rlast.err = ErrCipher => rlast.took = gcmHeaderSize + rlast.hdr
              /\ rlast.err = Nil =>
                    /\ rlast.took = gcmHeaderSize + rlast.hdr
                    /\ Len(rlast.got) + sr.readn = rlast.hdr - gcmTagSize

\* C13 witness: after a record of length field 17 has yielded its one byte,
\* the carrier delivers a header just above the largest length, with bytes
\* after it: Read refuses it as too long and leaves those bytes alone.
C13_Witness ==
    /\ Len(sent) = 1
    /\ recv = sent
    /\ rlast.hdr = gcmPacketSize + gcmTagSize + 1
    /\ rlast.err = ErrTooLong
    /\ rlast.took = gcmHeaderSize
    /\ rpos < Len(wire)


\* the calls of the log that took a whole record from the carrier: a header
\* whose length field SecureReader.read accepts and as many bytes after it
WholeRecords(log) ==
    {i \in 1..Len(log) : /\ log[i][1] > gcmTagSize
                          /\ log[i][1] <= gcmPacketCache - gcmHeaderSize
                          /\ log[i][2] = gcmHeaderSize + log[i][1]}

\* the carrier inserted nothing of its own (it may have damaged a tag)
NothingInserted == \A i \in 1..Len(wire) : wire[i].t # "x"

C39_CloseDuringRead ==
    (wstat.fly.close # "" /\ wstat.fly.at \notin {"", "idle"}) => wstat.fly.fault = ""


\* C40: SecureWriter.Write terminates.  If no carrier call of a run takes
\* nothing without an error, every Write that was entered returns, after at
\* most one carrier call per byte the carrier took and one for the error;
\* the flush loop is left only with the whole record taken or with the
\* carrier's error; and a call in which the carrier takes nothing and
\* returns no error leaves the Write in the loop with the same bytes to
\* flush.
C40_WriteTerminates ==
    /\ ([](wstat.wr.stalls = 0)) => ((wstat.wr.pc # "idle") ~> (wstat.wr.pc = "idle"))
    /\ [](wstat.wr.calls <= wstat.wr.taken + (IF wstat.wr.err # Nil THEN 1 ELSE 0))
    /\ [][(wstat.wr.pc = "flush" /\ wstat.wr.pc' # "flush") =>
             (Len(wstat.wr.p') = 0 \/ wstat.wr.err' # Nil)]_vars
    /\ [][(wstat.wr.pc = "flush" /\ wire' = wire /\ wstat.wr.err' = Nil) =>
             (wstat.wr.pc' = "flush" /\ wstat.wr.p' = wstat.wr.p)]_vars
    /\ [](wstat.wr.returned /\ wstat.wr.err = Nil => wstat.wr.n = wstat.wr.len)

\* C40 witness: a Write of three bytes (two records) returned nil after
\* more than two carrier calls, none of which took nothing.
C40_Witness ==
    /\ wstat.wr.returned
    /\ wstat.wr.err = Nil
    /\ wstat.wr.len > gcmPacketSize
    /\ wstat.wr.n = wstat.wr.len
    /\ wstat.wr.stalls = 0
    /\ wstat.wr.calls > 2
    /\ wstat.wr.taken = 2 * (gcmHeaderSize + gcmTagSize) + wstat.wr.len

====
